---- MODULE Spec2Model ----
(***************************************************************************)
(* Verification model of funny_farm_capital.                               *)
(*                                                                         *)
(*   SpecPortfolio  the Portfolio Rebalancer, analyze_portfolio_positions  *)
(*                  (src/portfolio_analyzer.py)                            *)
(*   SpecTrend      the Technical Trend Detector, EarlyTrendDetector       *)
(*                  (src/utils/stock_processing.py), on given indicator    *)
(*                  columns                                                *)
(*   SpecIndicators the Trend Detector on a price series: the indicator    *)
(*                  columns are computed by calculate_indicators           *)
(*   SpecYearly     StockAnalyzer.get_yearly_metrics (src/stock_ranking.py)*)
(*   SpecRanking    StockAnalyzer.analyze_stocks (src/stock_ranking.py)    *)
(*                                                                         *)
(* Numbers.  pandas columns hold float64 values.  The columns the          *)
(* rebalancer returns are whole numbers (every one is .round(0)) or NaN;   *)
(* they are modelled as records [nan, v].  Intermediate quotients are      *)
(* kept as exact fractions and rounded once, half to even, as numpy does.  *)
(* Scores of the trend detector are kept in hundredths (0.25 is 25).       *)
(***************************************************************************)
EXTENDS Integers, Sequences, FiniteSets, TLC

(***************************************************************************)
(* Bounds of the model                                                     *)
(***************************************************************************)
MaxHoldings == 3
MaxVariance == 3
MaxBars == 3

Symbols == <<"A", "B", "C", "D", "E">>
MktVals == {1, 50, 100}

VARIABLES
    \* ---- Portfolio Rebalancer ----
    holdings,            \* current_portfolio: the Equity rows, [Symbol, mv]
    exclude_stocks,      \* the exclude_stocks argument
    pc,                  \* position in analyze_portfolio_positions
    idx,                 \* position of the fetch loop in optimize_portfolio
    results,             \* results: [ticker, variance] of the fetched tickers
    outcome,             \* "running", "returned" or the exception raised
    plan,                \* output_df as returned (sorted)
    total_value,         \* total_value as returned
    last_symbol,         \* Symbol of output_df.index[-1] before the sort
    sharpe_improvement,  \* the dispersion-improvement value
    \* ---- Technical Trend Detector ----
    df,                  \* the indicator frame, one record per bar
    config,              \* config['trend_detection']
    signals,             \* what identify_trend returned at the last call
    signal,              \* what get_trend_signals returned at the last call
    call,                \* the arguments of the last get_trend_signals call
    macd_awards,         \* per bar: directions a call at that bar gave MACD
    price_data,          \* the fetched bars, [close, volume]
    \* ---- Fundamental Ranking Engine ----
    statements,          \* what the provider holds for one symbol
    metrics,             \* what get_yearly_metrics returned for it
    screener,            \* the provider's stock-screener response
    base_df,             \* base_df: the kept rows, under their index labels
    metrics_data,        \* metrics_data: one dict per processed symbol
    rpc,                 \* position in analyze_stocks
    stocks_df,           \* df of analyze_stocks as it stands
    growth_metrics,      \* what _calculate_growth_metrics returned
    weights,             \* the weights argument
    index_union,         \* how this pandas orders the union of two indexes
    ranked,              \* the table analyze_stocks returned
    endpoint,            \* the statement endpoint _make_request is asked for
    attempt,             \* HTTP requests made by this _make_request call
    waited,              \* seconds slept by this _make_request call
    request_errors,      \* str(e) of each request error so far, as words
    mr,                  \* position in _make_request and its caller
    returned,            \* what _make_request returned
    \* ---- main ----
    weekday,             \* datetime.today().weekday() of the run
    stock_scores,        \* the table read from paths['stock_scores']
    screens,             \* tickers each finviz / VIC screen answers with
    trend_verdict,       \* per ticker, what the Trend Detector would say
    investing_stocks,    \* the long list
    short_stocks,        \* the short list
    emails,              \* the emails sent, in order
    main_pc,             \* position in main()
    \* ---- Config ----
    config_file,         \* what config.yaml holds
    instance,            \* Config._instance
    config_calls         \* the outcome of every Config() call so far

pvars == <<holdings, exclude_stocks, pc, idx, results, outcome, plan,
           total_value, last_symbol, sharpe_improvement>>
tvars == <<df, config, signals, signal, call, macd_awards>>
ivars == <<price_data>>
yvars == <<statements, metrics>>
rvars == <<screener, base_df, metrics_data, rpc, stocks_df, growth_metrics, weights,
           index_union, ranked>>
qvars == <<endpoint, attempt, waited, request_errors, mr, returned>>
mvars == <<weekday, stock_scores, screens, trend_verdict, investing_stocks,
           short_stocks, emails, main_pc>>
cvars == <<config_file, instance, config_calls>>
xvars == <<qvars, mvars, cvars>>
vars == <<holdings, exclude_stocks, pc, idx, results, outcome, plan,
          total_value, last_symbol, sharpe_improvement,
          df, config, signals, signal, call, macd_awards, price_data,
          statements, metrics,
          screener, base_df, metrics_data, rpc, stocks_df, growth_metrics, weights,
          index_union, ranked, xvars>>

(***************************************************************************)
(* float64 values of the rounded columns: a whole number or NaN            *)
(***************************************************************************)
NaN == [nan |-> TRUE, v |-> 0]
Num(x) == [nan |-> FALSE, v |-> x]

\* A float64 value that is not a whole number is kept as the exact fraction
\* v / d with d >= 0; d = 0 is +inf (v > 0) or -inf (v < 0).
Rat(n, d) == [nan |-> FALSE, v |-> n, d |-> d]
Den(x) == IF "d" \in DOMAIN x THEN x.d ELSE 1

\* numpy round(0): round half to even, of the fraction n/d with d > 0
RoundHalfEven(n, d) ==
    LET q == n \div d
        r == n % d
    IN  IF 2 * r > d THEN q + 1
        ELSE IF 2 * r < d THEN q
        ELSE IF q % 2 = 0 THEN q ELSE q + 1

RECURSIVE SumSeq(_)
SumSeq(s) == IF s = <<>> THEN 0 ELSE Head(s) + SumSeq(Tail(s))

\* Series.sum(): NaN entries are skipped
RECURSIVE SumSkipNa(_)
SumSkipNa(s) ==
    IF s = <<>> THEN 0
    ELSE (IF Head(s).nan THEN 0 ELSE Head(s).v) + SumSkipNa(Tail(s))

Column(rows, f) == [k \in 1..Len(rows) |-> rows[k][f]]

(***************************************************************************)
(* Portfolio Rebalancer: analyze_portfolio_positions                       *)
(***************************************************************************)
\* optimize_portfolio: the rows whose Symbol is not in exclude_stocks
OptimizePortfolio(hs, excl) == SelectSeq(hs, LAMBDA h : h.Symbol \notin excl)

\* optimize_value (line 27) used in place of total_value
TotalValueOptimizeOnly(hs, excl) ==
    SumSeq([k \in 1..Len(OptimizePortfolio(hs, excl)) |->
               OptimizePortfolio(hs, excl)[k].mv])

\* total_value: the market value of every Equity row, excluded ones included
TotalValue(hs, excl) == SumSeq([k \in 1..Len(hs) |-> hs[k].mv])

\* current_percent of one row: (mv / total_value * 100).round(0)
CurrentPercent(mv, total) == RoundHalfEven(100 * mv, total)

\* optimize_total_pct: the sum of the current_percent column
OptimizeTotalPct(opt, total) ==
    SumSeq([k \in 1..Len(opt) |-> CurrentPercent(opt[k].mv, total)])

RECURSIVE ProdPositive(_)
ProdPositive(s) ==
    IF s = <<>> THEN 1
    ELSE (IF Head(s) > 0 THEN Head(s) ELSE 1) * ProdPositive(Tail(s))

\* update_size / temp_update_sum of row k, as the fraction <<n, d>>, for
\* variances that are all positive:
\*   update_size = (1 / count) / (variance / total_variance), so
\*   update_size[k] / sum(update_size) = (1/variance[k]) / sum(1/variance)
\* weights proportional to variance instead of inversely proportional
UpdateShareProportional(variance, k) == <<variance[k], SumSeq(variance)>>

UpdateShare(variance, k) ==
    LET L == ProdPositive(variance)
        w == [j \in 1..Len(variance) |-> L \div variance[j]]
    IN  <<w[k], SumSeq(w)>>

\* ideal_percent of row k of variance_df.  float64 division by zero does not
\* raise in pandas:
\*   total_variance = 0: pct_variance = 0/0 = NaN in every row, so every
\*     update_size and every ideal_percent is NaN;
\*   variance[k] = 0 < total_variance: update_size[k] = inf, the sum is inf,
\*     row k is inf/inf = NaN and every other row is finite/inf = 0.
IdealPercent(variance, k, total_pct) ==
    IF SumSeq(variance) = 0 THEN NaN
    ELSE IF variance[k] = 0 THEN NaN
    ELSE IF \E j \in 1..Len(variance) : variance[j] = 0 THEN Num(0)
    ELSE LET f == UpdateShare(variance, k)
         IN  Num(RoundHalfEven(f[1] * total_pct, f[2]))

\* cash_change of one row: ((ideal - current) / 100 * total_value).round(0)
CashChange(ideal, current, total) ==
    IF ideal.nan THEN NaN
    ELSE Num(RoundHalfEven((ideal.v - current.v) * total, 100))

\* The left merge of optimize_portfolio with variance_df, and cash_change:
\* a row without a variance_df row gets NaN in both columns.
MergedRows(opt, res, total) ==
    LET variance == [j \in 1..Len(res) |-> res[j].variance]
        total_pct == OptimizeTotalPct(opt, total)
        Row(k) ==
            LET cur == Num(CurrentPercent(opt[k].mv, total))
                hit == {j \in 1..Len(res) : res[j].ticker = opt[k].Symbol}
                ideal == IF hit = {} THEN NaN
                         ELSE IdealPercent(variance, CHOOSE j \in hit : TRUE,
                                           total_pct)
            IN  [Symbol |-> opt[k].Symbol,
                 current_percent |-> cur,
                 ideal_percent |-> ideal,
                 cash_change |-> CashChange(ideal, cur, total)]
    IN  [k \in 1..Len(opt) |-> Row(k)]

AdjustFinalFirst(rows, total) ==
    IF rows = <<>> THEN rows
    ELSE LET total_change == SumSkipNa(Column(rows, "cash_change"))
             old == rows[1]
             cash == IF old.cash_change.nan THEN NaN
                     ELSE Num(old.cash_change.v - total_change)
         IN  [rows EXCEPT ![1] = [old EXCEPT !.cash_change = cash]]

\* "Adjust final stock to ensure zero sum": the row at output_df.index[-1]
AdjustFinal(rows, total) ==
    IF rows = <<>> THEN rows
    ELSE LET n == Len(rows)
             total_change == SumSkipNa(Column(rows, "cash_change"))
             old == rows[n]
             cash == IF old.cash_change.nan THEN NaN
                     ELSE Num(old.cash_change.v - total_change)
             ideal == IF cash.nan THEN NaN
                      ELSE Num(RoundHalfEven(
                               old.current_percent.v * total + 100 * cash.v,
                               total))
         IN  [rows EXCEPT ![n] = [old EXCEPT !.cash_change = cash,
                                              !.ideal_percent = ideal]]

\* Series.std() (ddof = 1, NaN skipped): "NaN" for fewer than two values,
\* else whether the sample variance is zero or positive.  For k values x,
\* k * sum(x^2) - sum(x)^2 = k * (k - 1) * variance.
StdClass(col) ==
    LET xs == SelectSeq(col, LAMBDA x : ~x.nan)
        k == Len(xs)
        s1 == SumSeq([j \in 1..k |-> xs[j].v])
        s2 == SumSeq([j \in 1..k |-> xs[j].v * xs[j].v])
    IN  IF k < 2 THEN "NaN"
        ELSE IF k * s2 - s1 * s1 = 0 THEN "zero" ELSE "pos"

\* ((1/ideal_std) / (1/current_std) - 1) * 100 on numpy float64 scalars:
\* 1/0 is inf, inf/inf is NaN, x/inf is 0, NaN propagates.
SharpeImprovement(rows) ==
    LET current_std == StdClass(Column(rows, "current_percent"))
        ideal_std == StdClass(Column(rows, "ideal_percent"))
    IN  IF current_std = "NaN" \/ ideal_std = "NaN" THEN "NaN"
        ELSE IF ideal_std = "zero"
             THEN (IF current_std = "zero" THEN "NaN" ELSE "inf")
        ELSE "finite"

\* sort_values('cash_change', ascending=False): NaN last; rows with equal
\* keys keep their order (the sort of a short column is an insertion sort).
SortsBefore(a, b) == ~a.cash_change.nan /\ (b.cash_change.nan \/ a.cash_change.v > b.cash_change.v)

RECURSIVE InsertRow(_, _)
InsertRow(sorted, row) ==
    IF sorted = <<>> THEN <<row>>
    ELSE IF SortsBefore(row, Head(sorted)) THEN <<row>> \o sorted
    ELSE <<Head(sorted)>> \o InsertRow(Tail(sorted), row)

RECURSIVE SortByCashChange(_)
SortByCashChange(rows) ==
    IF rows = <<>> THEN <<>>
    ELSE InsertRow(SortByCashChange(SubSeq(rows, 1, Len(rows) - 1)),
                   rows[Len(rows)])

(* ---- the state machine of one run ---- *)
TrendIdle ==
    /\ df = <<>>
    /\ config = [min_score |-> 0]
    /\ signals = [kind |-> "none"]
    /\ signal = [kind |-> "none"]
    /\ call = [bar |-> 0]
    /\ macd_awards = <<>>

IndicatorsIdle == price_data = <<>>

YearlyIdle ==
    /\ statements = [kind |-> "none"]
    /\ metrics = [kind |-> "none"]

RankingIdle ==
    /\ screener = <<>>
    /\ base_df = <<>>
    /\ metrics_data = <<>>
    /\ rpc = "idle"
    /\ stocks_df = <<>>
    /\ growth_metrics = <<>>
    /\ weights = [kind |-> "none", dict |-> <<>>]
    /\ index_union = "none"
    /\ ranked = [kind |-> "none"]

RequestIdle ==
    /\ endpoint = "none"
    /\ attempt = 0
    /\ waited = 0
    /\ request_errors = <<>>
    /\ mr = "idle"
    /\ returned = [kind |-> "none", payload |-> <<>>]

MainIdle ==
    /\ weekday = 0
    /\ stock_scores = [columns |-> {}, rows |-> <<>>]
    /\ screens = [kind |-> "none"]
    /\ trend_verdict = [kind |-> "none"]
    /\ investing_stocks = [kind |-> "none"]
    /\ short_stocks = [kind |-> "none"]
    /\ emails = <<>>
    /\ main_pc = "idle"

ConfigIdle ==
    /\ config_file = "none"
    /\ instance = [kind |-> "None"]
    /\ config_calls = <<>>

OthersIdle == RequestIdle /\ MainIdle /\ ConfigIdle

HoldingsOf(n, mv) == [k \in 1..n |-> [Symbol |-> Symbols[k], mv |-> mv[k]]]

\* After the portfolio file is read and filtered to Equity rows (lines 8-35).
PortfolioInit ==
    /\ \E n \in 1..MaxHoldings :
         \E mv \in [1..n -> MktVals] : holdings = HoldingsOf(n, mv)
    /\ exclude_stocks \in SUBSET {Symbols[k] : k \in 1..MaxHoldings}
    /\ pc = "fetch"
    /\ idx = 1
    /\ results = <<>>
    /\ outcome = "running"
    /\ plan = <<>>
    /\ total_value = 0
    /\ last_symbol = "none"
    /\ sharpe_improvement = "none"
    /\ TrendIdle
    /\ IndicatorsIdle
    /\ YearlyIdle
    /\ RankingIdle
    /\ OthersIdle

Fetching ==
    /\ pc = "fetch"
    /\ idx <= Len(OptimizePortfolio(holdings, exclude_stocks))

SkipTicker ==
    /\ idx' = idx + 1
    /\ UNCHANGED <<holdings, exclude_stocks, pc, results, outcome, plan,
                   total_value, last_symbol, sharpe_improvement>>
    /\ UNCHANGED <<tvars, ivars, yvars, rvars, xvars>>

\* stock.history raises: the except branch prints and continues
FetchRaises == Fetching /\ SkipTicker

\* stock.history returns an empty frame: nothing is appended
FetchEmpty == Fetching /\ SkipTicker

\* stock.history returns bars: the mean weighted_var is appended
FetchHistory ==
    /\ Fetching
    /\ \E v \in 0..MaxVariance :
         results' = Append(results,
             [ticker |-> OptimizePortfolio(holdings, exclude_stocks)[idx].Symbol,
              variance |-> v])
    /\ idx' = idx + 1
    /\ UNCHANGED <<holdings, exclude_stocks, pc, outcome, plan,
                   total_value, last_symbol, sharpe_improvement>>
    /\ UNCHANGED <<tvars, ivars, yvars, rvars, xvars>>

FetchDone ==
    /\ pc = "fetch"
    /\ idx > Len(OptimizePortfolio(holdings, exclude_stocks))

\* Lines 57-59 with no result: pd.DataFrame([]) has no 'variance' column
ComputeEmpty ==
    /\ FetchDone
    /\ results = <<>>
    /\ pc' = "done"
    /\ outcome' = "KeyError"
    /\ UNCHANGED <<holdings, exclude_stocks, idx, results, plan,
                   total_value, last_symbol, sharpe_improvement>>
    /\ UNCHANGED <<tvars, ivars, yvars, rvars, xvars>>

\* Lines 57-101
ComputePlan ==
    /\ FetchDone
    /\ results # <<>>
    /\ LET opt == OptimizePortfolio(holdings, exclude_stocks)
           total == TotalValue(holdings, exclude_stocks)
           rows == AdjustFinal(MergedRows(opt, results, total), total)
       IN  /\ plan' = SortByCashChange(rows)
           /\ total_value' = total
           /\ last_symbol' = rows[Len(rows)].Symbol
           /\ sharpe_improvement' = SharpeImprovement(rows)
    /\ pc' = "done"
    /\ outcome' = "returned"
    /\ UNCHANGED <<holdings, exclude_stocks, idx, results>>
    /\ UNCHANGED <<tvars, ivars, yvars, rvars, xvars>>

PortfolioNext ==
    \/ FetchRaises
    \/ FetchEmpty
    \/ FetchHistory
    \/ ComputeEmpty
    \/ ComputePlan

SpecPortfolio == PortfolioInit /\ [][PortfolioNext]_vars

(***************************************************************************)
(* Properties of the Portfolio Rebalancer (checked under SpecPortfolio)    *)
(***************************************************************************)
Returned == pc = "done" /\ outcome = "returned"

Optimizable == OptimizePortfolio(holdings, exclude_stocks)
OptimizableSymbols == {Optimizable[k].Symbol : k \in 1..Len(Optimizable)}
Fetched == {results[j].ticker : j \in 1..Len(results)}
Dropped == OptimizableSymbols \ Fetched
VarianceOf(sym) ==
    results[CHOOSE j \in 1..Len(results) : results[j].ticker = sym].variance
PlanRow(sym) == plan[CHOOSE k \in 1..Len(plan) : plan[k].Symbol = sym]
MvOf(sym) ==
    holdings[CHOOSE k \in 1..Len(holdings) : holdings[k].Symbol = sym].mv
AllMarketValue == SumSeq([k \in 1..Len(holdings) |-> holdings[k].mv])

\* C1: in every returned plan (the optimization set is then non-empty, some
\* holdings may have been dropped) the cash_change column sums to exactly 0.
C1_CashChangeSumsToZero ==
    Returned => SumSkipNa(Column(plan, "cash_change")) = 0

ZeroVariance == \E j \in 1..Len(results) : results[j].variance = 0

\* C2: in every returned plan (computed from positive variance scores) the
\* ideal_percent column and the current_percent column have the same sum.
C2_BucketWeightPreserved ==
    (Returned /\ ~ZeroVariance) =>
        SumSkipNa(Column(plan, "ideal_percent"))
            = SumSkipNa(Column(plan, "current_percent"))

\* two holdings, none excluded, both fetched, a 50/50 current split and
\* variances in ratio 2:1; hi is the more volatile symbol
TwoToOne(hi, lo) ==
    /\ Len(holdings) = 2
    /\ OptimizableSymbols = {hi, lo}
    /\ hi # lo
    /\ Fetched = {hi, lo}
    /\ PlanRow(hi).current_percent.v = 50
    /\ PlanRow(lo).current_percent.v = 50
    /\ VarianceOf(lo) > 0
    /\ VarianceOf(hi) = 2 * VarianceOf(lo)

SkewedToLowVariance(hi, lo) ==
    /\ PlanRow(lo).ideal_percent.v > 50
    /\ PlanRow(hi).ideal_percent.v < 50
    /\ PlanRow(hi).cash_change.v = 0 - PlanRow(lo).cash_change.v

InverselyOrdered(syms) ==
    \A a \in syms, b \in syms :
        (VarianceOf(a) > VarianceOf(b) /\ VarianceOf(b) > 0)
            => PlanRow(a).ideal_percent.v <= PlanRow(b).ideal_percent.v

C3_ScenarioWitness ==
    /\ Returned
    /\ total_value >= 3
    /\ \E hi \in Fetched, lo \in Fetched :
           TwoToOne(hi, lo) /\ PlanRow(lo).cash_change.v > 0

\* C4: a run whose optimization set is empty ends in an explicit failure
\* of its own kind (DegenerateInput), not in an incidental exception.
C4_EmptySetReported ==
    (pc = "done" /\ results = <<>>) => outcome = "DegenerateInput"

StdUndefinedOrZero ==
    \/ StdClass(Column(plan, "current_percent")) # "pos"
    \/ StdClass(Column(plan, "ideal_percent")) # "pos"

\* C5: a run with a zero variance score, or with a zero or undefined
\* standard deviation of either percent column, ends in an explicit
\* failure; a returned dispersion improvement is never NaN or infinite.
C5_DegenerateReported ==
    (pc = "done" /\ results # <<>>) =>
        /\ (ZeroVariance => outcome = "DegenerateInput")
        /\ (Returned => ~StdUndefinedOrZero /\ sharpe_improvement = "finite")

\* C6: when some holdings were dropped and some were fetched (with positive
\* variance scores), the run returns and every row of the plan has a defined
\* ideal_percent and cash_change.
C6_DroppedRowsDefined ==
    (pc = "done" /\ Dropped # {} /\ results # <<>> /\ ~ZeroVariance) =>
        /\ outcome = "returned"
        /\ \A k \in 1..Len(plan) :
               ~plan[k].ideal_percent.nan /\ ~plan[k].cash_change.nan

StrongScore == 80

Gt(a, b) == ~a.nan /\ ~b.nan /\ a.v * Den(b) > b.v * Den(a)
Lt(a, b) == ~a.nan /\ ~b.nan /\ a.v * Den(b) < b.v * Den(a)
Le(a, b) == ~a.nan /\ ~b.nan /\ a.v * Den(b) <= b.v * Den(a)
Ge(a, b) == ~a.nan /\ ~b.nan /\ a.v * Den(b) >= b.v * Den(a)

Last(frame) == frame[Len(frame)]
Prev(frame) == frame[Len(frame) - 1]

MaScoreNonStrict(frame, cfg, trend_type) ==
    LET b == Last(frame)
    IN  IF trend_type = "up"
        THEN (IF Ge(b.close, b.sma_10) /\ Ge(b.sma_10, b.sma_20)
              THEN cfg.indicator_weights.price_ma ELSE 0)
        ELSE (IF Le(b.close, b.sma_10) /\ Le(b.sma_10, b.sma_20)
              THEN cfg.indicator_weights.price_ma ELSE 0)

\* 1. Price-MA relationships
MaScore(frame, cfg, trend_type) ==
    LET b == Last(frame)
    IN  IF trend_type = "up"
        THEN (IF Gt(b.close, b.sma_10) /\ Gt(b.sma_10, b.sma_20)
              THEN cfg.indicator_weights.price_ma ELSE 0)
        ELSE (IF Lt(b.close, b.sma_10) /\ Lt(b.sma_10, b.sma_20)
              THEN cfg.indicator_weights.price_ma ELSE 0)

\* 2. Volume confirmation: any bar of iloc[-lookback:] above the threshold
VolScore(frame, cfg) ==
    LET n == Len(frame)
        from == IF n - cfg.lookback_period + 1 < 1 THEN 1
                ELSE n - cfg.lookback_period + 1
    IN  IF \E k \in from..n :
              Gt(frame[k].volume_ratio, Num(cfg.thresholds.volume_ratio))
        THEN cfg.indicator_weights.volume ELSE 0

MomentumScoreAnyRoc(frame, cfg, trend_type) ==
    LET b == Last(frame)
    IN  IF /\ Gt(b.rsi, Num(cfg.thresholds.rsi_lower))
           /\ Lt(b.rsi, Num(cfg.thresholds.rsi_upper))
        THEN cfg.indicator_weights.momentum ELSE 0

\* 3. Momentum indicators
MomentumScore(frame, cfg, trend_type) ==
    LET b == Last(frame)
        inBand == /\ Gt(b.rsi, Num(cfg.thresholds.rsi_lower))
                  /\ Lt(b.rsi, Num(cfg.thresholds.rsi_upper))
    IN  IF trend_type = "up"
        THEN (IF inBand /\ Gt(b.roc_5, Num(0))
              THEN cfg.indicator_weights.momentum ELSE 0)
        ELSE (IF inBand /\ Lt(b.roc_5, Num(0))
              THEN cfg.indicator_weights.momentum ELSE 0)

\* 4. MACD signal: a cross between iloc[-2] and iloc[-1]
MacdScoreNoPrev(frame, cfg, trend_type) ==
    IF trend_type = "up"
    THEN (IF Gt(Last(frame).macd, Last(frame).macd_signal)
          THEN cfg.indicator_weights.macd ELSE 0)
    ELSE (IF Lt(Last(frame).macd, Last(frame).macd_signal)
          THEN cfg.indicator_weights.macd ELSE 0)

MacdScore(frame, cfg, trend_type) ==
    IF trend_type = "up"
    THEN (IF /\ Gt(Last(frame).macd, Last(frame).macd_signal)
             /\ Le(Prev(frame).macd, Prev(frame).macd_signal)
          THEN cfg.indicator_weights.macd ELSE 0)
    ELSE (IF /\ Lt(Last(frame).macd, Last(frame).macd_signal)
             /\ Ge(Prev(frame).macd, Prev(frame).macd_signal)
          THEN cfg.indicator_weights.macd ELSE 0)

\* 5. Bollinger band position
BbScore(frame, cfg, trend_type) ==
    LET b == Last(frame)
    IN  IF trend_type = "up"
        THEN (IF Gt(b.close, b.bb_middle) /\ Lt(b.close, b.bb_upper)
              THEN cfg.indicator_weights.bollinger ELSE 0)
        ELSE (IF Lt(b.close, b.bb_middle) /\ Gt(b.close, b.bb_lower)
              THEN cfg.indicator_weights.bollinger ELSE 0)

identify_trend(frame, cfg, trend_type) ==
    LET ma == MaScore(frame, cfg, trend_type)
        vol == VolScore(frame, cfg)
        momentum == MomentumScore(frame, cfg, trend_type)
        macd == MacdScore(frame, cfg, trend_type)
        bb == BbScore(frame, cfg, trend_type)
    IN  [kind |-> "scores",
         total_score |-> ma + vol + momentum + macd + bb,
         ma_score |-> ma,
         volume_score |-> vol,
         momentum_score |-> momentum,
         macd_score |-> macd,
         bb_score |-> bb]

\* min_score = min_score or self.config['min_score']: None and 0 are falsy
EffectiveMinScore(min_score, cfg) ==
    IF min_score.given /\ min_score.v # 0 THEN min_score.v ELSE cfg.min_score

\* f"strong_{trend_type}trend" if total_score > 0.8 else f"potential_..."
SignalTypeAtLeast(total_score, trend_type) ==
    IF total_score >= StrongScore
    THEN "strong_" \o trend_type \o "trend"
    ELSE "potential_" \o trend_type \o "trend"

SignalType(total_score, trend_type) ==
    IF total_score > StrongScore
    THEN "strong_" \o trend_type \o "trend"
    ELSE "potential_" \o trend_type \o "trend"

ScoreKeys == {"total_score", "ma_score", "volume_score", "momentum_score",
              "macd_score", "bb_score"}

get_trend_signals(frame, cfg, min_score, trend_type) ==
    LET s == identify_trend(frame, cfg, trend_type)
    IN  IF s.total_score >= EffectiveMinScore(min_score, cfg)
        THEN [kind |-> "signal",
              trend_strength |-> s.total_score,
              signal_type |-> SignalType(s.total_score, trend_type),
              confidence |-> s.total_score * 100,
              contributing_factors |-> {k \in ScoreKeys : s[k] > 0}]
        ELSE [kind |-> "None"]

(* ---- the state machine of a symbol's daily evaluations ---- *)
PortfolioIdle ==
    /\ holdings = <<>>
    /\ exclude_stocks = {}
    /\ pc = "idle"
    /\ idx = 0
    /\ results = <<>>
    /\ outcome = "idle"
    /\ plan = <<>>
    /\ total_value = 0
    /\ last_symbol = "none"
    /\ sharpe_improvement = "none"

\* The columns of one bar other than MACD: close, the SMAs (bb_middle is the
\* same rolling(20).mean() as sma_20, the bands are 2 std around it),
\* volume_ratio, rsi and roc_5.
BarOf(close, sma_10, sma_20, two_std, volume_ratio, rsi, roc_5) ==
    [close |-> Num(close), sma_10 |-> sma_10, sma_20 |-> sma_20,
     bb_middle |-> sma_20,
     bb_upper |-> IF sma_20.nan THEN NaN ELSE Num(sma_20.v + two_std),
     bb_lower |-> IF sma_20.nan THEN NaN ELSE Num(sma_20.v - two_std),
     volume_ratio |-> volume_ratio, rsi |-> rsi, roc_5 |-> roc_5]

BarColumns ==
    { BarOf(10, Num(9), Num(8), 4, Num(2), Num(50), Num(1)),    \* rising, on volume
      BarOf(10, Num(9), Num(8), 1, Num(1), Num(80), Num(1)),    \* rising, overbought, above the band
      BarOf(10, Num(11), Num(12), 4, Num(1), Num(50), Num(-1)), \* falling
      BarOf(10, NaN, NaN, 0, NaN, NaN, NaN) }                   \* warm-up: windows not filled

MacdValues == {-1, 0, 1}

\* the min_score argument: None, 0 or 0.8
MinScoreArgs == {[given |-> FALSE, v |-> 0], [given |-> TRUE, v |-> 0],
                 [given |-> TRUE, v |-> 80]}

\* indicator_weights is read from the configuration as it stands: the
\* shipped weights, and a tuning that puts most of the weight on volume
IndicatorWeights ==
    { [price_ma |-> 25, volume |-> 20, momentum |-> 25,
       macd |-> 20, bollinger |-> 10],
      [price_ma |-> 4, volume |-> 85, momentum |-> 4,
       macd |-> 4, bollinger |-> 3] }

TrendConfigs ==
    { [min_score |-> m,
       lookback_period |-> 2,
       indicator_weights |-> w,
       thresholds |-> [volume_ratio |-> 1, rsi_lower |-> 30, rsi_upper |-> 70]]
      : m \in {60}, w \in IndicatorWeights }

TrendInit ==
    /\ df = <<>>
    /\ config \in TrendConfigs
    /\ signals = [kind |-> "none"]
    /\ signal = [kind |-> "none"]
    /\ call = [bar |-> 0]
    /\ macd_awards = <<>>
    /\ PortfolioIdle
    /\ IndicatorsIdle
    /\ YearlyIdle
    /\ RankingIdle
    /\ OthersIdle

\* A run fetches the series, now one bar longer, and builds a new detector
\* over it (process_positions, lines 298-305).  The rolling windows are
\* unfilled on the first bars of a series only.
AppendBar ==
    /\ Len(df) < MaxBars
    /\ \E c \in BarColumns, m \in MacdValues :
         /\ c.sma_10.nan => \A k \in 1..Len(df) : df[k].sma_10.nan
         /\ df' = Append(df, c @@ [macd |-> Num(m), macd_signal |-> Num(0)])
    /\ macd_awards' = Append(macd_awards, {})
    /\ signals' = [kind |-> "none"]
    /\ signal' = [kind |-> "none"]
    /\ call' = [bar |-> 0]
    /\ UNCHANGED config
    /\ UNCHANGED <<pvars, ivars, yvars, rvars, xvars>>

\* get_trend_signals on a frame of at least two bars
GetTrendSignals ==
    /\ Len(df) >= 2
    /\ \E min_score \in MinScoreArgs, trend_type \in {"up", "down"} :
         LET s == identify_trend(df, config, trend_type)
         IN  /\ signals' = s
             /\ signal' = get_trend_signals(df, config, min_score, trend_type)
             /\ call' = [bar |-> Len(df), min_score |-> min_score,
                         trend_type |-> trend_type]
             /\ macd_awards' =
                  [macd_awards EXCEPT ![Len(df)] =
                      IF s.macd_score > 0 THEN @ \cup {trend_type} ELSE @]
    /\ UNCHANGED <<df, config>>
    /\ UNCHANGED <<pvars, ivars, yvars, rvars, xvars>>

\* On a one-bar frame identify_trend reads iloc[-2] and raises IndexError
GetTrendSignalsOneBar ==
    /\ Len(df) = 1
    /\ \E min_score \in MinScoreArgs, trend_type \in {"up", "down"} :
         call' = [bar |-> 1, min_score |-> min_score, trend_type |-> trend_type]
    /\ signals' = [kind |-> "none"]
    /\ signal' = [kind |-> "IndexError"]
    /\ UNCHANGED <<df, config, macd_awards>>
    /\ UNCHANGED <<pvars, ivars, yvars, rvars, xvars>>

TrendNext ==
    \/ AppendBar
    \/ GetTrendSignals
    \/ GetTrendSignalsOneBar

SpecTrend == TrendInit /\ [][TrendNext]_vars

(***************************************************************************)
(* Properties of the Trend Detector (checked under SpecTrend)              *)
(***************************************************************************)
\* a get_trend_signals call on the current frame has returned
Called == call.bar >= 2

\* C8: a call returns a signal exactly when total_score reaches the
\* effective minimum, which is the min_score argument whenever one is
\* given (0 included) and the configured min_score otherwise.
C8_SignalIffMinimumMet ==
    Called =>
        LET minimum == IF call.min_score.given THEN call.min_score.v
                       ELSE config.min_score
        IN  (signal.kind = "signal") <=> (signals.total_score >= minimum)

\* C9: a returned signal is strong_<dir>trend exactly when its total score
\* is strictly above 0.8 and potential_<dir>trend otherwise, <dir> is the
\* requested direction, and confidence is the total score times 100.
C9_SignalTypeAndConfidence ==
    signal.kind = "signal" =>
        /\ signal.trend_strength = signals.total_score
        /\ signal.confidence = 100 * signals.total_score
        /\ signal.signal_type =
              (IF signals.total_score > 80
               THEN (IF call.trend_type = "up" THEN "strong_uptrend"
                     ELSE "strong_downtrend")
               ELSE (IF call.trend_type = "up" THEN "potential_uptrend"
                     ELSE "potential_downtrend"))

C9_Witness ==
    /\ signal.kind = "signal"
    /\ signals.total_score = 80
    /\ signal.signal_type = "potential_uptrend"

C9_StrongWitness ==
    /\ signal.kind = "signal"
    /\ signals.total_score > 80
    /\ signal.signal_type = "strong_downtrend"

\* the MACD line is above (up) or below (down) its signal line at bar k
MacdSide(k, trend_type) ==
    IF trend_type = "up" THEN df[k].macd.v > df[k].macd_signal.v
    ELSE df[k].macd.v < df[k].macd_signal.v

\* C10: a call awards the MACD weight exactly on a fresh cross (on the
\* trend side at the latest bar, not on it at the bar before), and calls at
\* two consecutive bars never both award it for the same direction.
C10_MacdOnlyOnFreshCross ==
    /\ Called =>
          ((signals.macd_score > 0)
              <=> (/\ MacdSide(call.bar, call.trend_type)
                   /\ ~MacdSide(call.bar - 1, call.trend_type)))
    /\ Called => signals.macd_score \in {0, config.indicator_weights.macd}
    /\ \A k \in 1..(Len(df) - 1) : macd_awards[k] \cap macd_awards[k + 1] = {}

C10_Witness ==
    /\ Called
    /\ call.bar >= 3
    /\ call.trend_type \in macd_awards[call.bar - 1]
    /\ MacdSide(call.bar, call.trend_type)
    /\ signals.macd_score = 0

\* the scores of the two directions on the frame of the last call
UpScores == identify_trend(df, config, "up")
DownScores == identify_trend(df, config, "down")

DirectionAwareKeys == {"ma_score", "momentum_score", "macd_score", "bb_score"}

\* each direction-aware check awards at most one direction, the volume
\* check awards both the same, and the totals add up to at most the sum of
\* the weights plus the volume weight
ChecksExclusive ==
    /\ \A k \in DirectionAwareKeys : ~(UpScores[k] > 0 /\ DownScores[k] > 0)
    /\ UpScores.volume_score = DownScores.volume_score
    /\ UpScores.total_score + DownScores.total_score
          <= 100 + config.indicator_weights.volume

\* get_trend_signals classifies the bar as strong in both directions
BothStrong ==
    /\ get_trend_signals(df, config, call.min_score, "up").kind = "signal"
    /\ get_trend_signals(df, config, call.min_score, "up").signal_type
          = "strong_uptrend"
    /\ get_trend_signals(df, config, call.min_score, "down").kind = "signal"
    /\ get_trend_signals(df, config, call.min_score, "down").signal_type
          = "strong_downtrend"

VolumeWindow == 20
RocShort == 5
RocLong == 20
SmaFast == 10
SmaMid == 20
SmaSlow == 50
SlopePeriods == 5
RsiWindow == 14
MacdFast == 12
MacdSlow == 26
MacdSignalSpan == 9
BollingerWindow == 20
EwmScale == 10000

RECURSIVE SumRange(_, _, _)
SumRange(xs, from, to) ==
    IF from > to THEN 0 ELSE xs[to] + SumRange(xs, from, to - 1)

\* Series.rolling(window).mean() at bar k: NaN until the window is full
RollingMean(xs, k, window) ==
    IF k < window THEN NaN ELSE Rat(SumRange(xs, k - window + 1, k), window)

\* volume / volume_ma: 0 / 0 is NaN, x / 0 is inf
VolumeRatio(volume, volume_ma) ==
    IF volume_ma.nan \/ (volume = 0 /\ volume_ma.v = 0) THEN NaN
    ELSE Rat(volume * volume_ma.d, volume_ma.v)

\* Series.pct_change(periods) * 100 at bar k
PctChange(xs, k, periods) ==
    IF k <= periods THEN NaN
    ELSE Rat(100 * (xs[k] - xs[k - periods]), xs[k - periods])

\* Series.diff(periods) of a rolling mean at bar k
SmaSlope(xs, k, window) ==
    IF k - SlopePeriods < window THEN NaN
    ELSE Rat(SumRange(xs, k - window + 1, k)
               - SumRange(xs, k - SlopePeriods - window + 1, k - SlopePeriods),
             window)

\* close.diff(): NaN at the first bar
Delta(close, k) == IF k = 1 THEN NaN ELSE Num(close[k] - close[k - 1])

\* delta.where(delta > 0, 0)
GainOf(delta) == IF Gt(delta, Num(0)) THEN delta.v ELSE 0

LossOfSigned(delta) == IF Lt(delta, Num(0)) THEN delta.v ELSE 0

\* -delta.where(delta < 0, 0)
LossOf(delta) == -(IF Lt(delta, Num(0)) THEN delta.v ELSE 0)

\* rs = gain / loss: 0 / 0 is NaN, x / 0 is inf
Rs(gain, loss) ==
    IF gain.nan \/ loss.nan \/ (gain.v = 0 /\ loss.v = 0) THEN NaN
    ELSE IF loss.v = 0 THEN Rat(gain.v, 0)
    ELSE Rat(gain.v * loss.d, gain.d * loss.v)

\* 100 - (100 / (1 + rs)): 1 + inf is inf and 100 / inf is 0
Rsi(rs) ==
    IF rs.nan THEN NaN
    ELSE IF rs.d = 0 THEN Num(100)
    ELSE Rat(100 * (rs.v + rs.d) - 100 * rs.d, rs.v + rs.d)

\* Series.ewm(span, adjust=False).mean() of values in units of 1 / EwmScale:
\* y[1] = x[1], y[t] = (1 - a) * y[t-1] + a * x[t] with a = 2 / (span + 1)
RECURSIVE Ewm(_, _)
Ewm(xs, span) ==
    IF Len(xs) <= 1 THEN xs
    ELSE LET prev == Ewm(SubSeq(xs, 1, Len(xs) - 1), span)
         IN  Append(prev,
                    RoundHalfEven((span - 1) * prev[Len(prev)] + 2 * xs[Len(xs)],
                                  span + 1))

\* the least k >= from with (window - 1) * k^2 >= 4 * window * q
RECURSIVE LeastRoot(_, _, _)
LeastRoot(q, window, from) ==
    IF (window - 1) * from * from >= 4 * window * q THEN from
    ELSE LeastRoot(q, window, from + 1)

\* 2 * rolling(window).std() at bar k, in units of 1 / window, rounded up:
\* the variance is (window * sum(x^2) - sum(x)^2) / (window * (window - 1))
TwoStd(xs, k, window) ==
    LET sum == SumRange(xs, k - window + 1, k)
        squares == SumRange([j \in 1..Len(xs) |-> xs[j] * xs[j]],
                            k - window + 1, k)
    IN  LeastRoot(window * squares - sum * sum, window, 0)

calculate_indicators(bars) ==
    LET n == Len(bars)
        close == [k \in 1..n |-> bars[k].close]
        volume == [k \in 1..n |-> bars[k].volume]
        gains == [k \in 1..n |-> GainOf(Delta(close, k))]
        losses == [k \in 1..n |-> LossOf(Delta(close, k))]
        scaled == [k \in 1..n |-> close[k] * EwmScale]
        exp1 == Ewm(scaled, MacdFast)
        exp2 == Ewm(scaled, MacdSlow)
        macd == [k \in 1..n |-> exp1[k] - exp2[k]]
        macd_signal == Ewm(macd, MacdSignalSpan)
    IN  [k \in 1..n |->
          LET volume_ma == RollingMean(volume, k, VolumeWindow)
              bb_middle == RollingMean(close, k, BollingerWindow)
          IN  [close |-> Num(close[k]),
               volume |-> Num(volume[k]),
               volume_ma |-> volume_ma,
               volume_ratio |-> VolumeRatio(volume[k], volume_ma),
               roc_5 |-> PctChange(close, k, RocShort),
               roc_20 |-> PctChange(close, k, RocLong),
               sma_10 |-> RollingMean(close, k, SmaFast),
               sma_10_slope |-> SmaSlope(close, k, SmaFast),
               sma_20 |-> RollingMean(close, k, SmaMid),
               sma_20_slope |-> SmaSlope(close, k, SmaMid),
               sma_50 |-> RollingMean(close, k, SmaSlow),
               sma_50_slope |-> SmaSlope(close, k, SmaSlow),
               rsi |-> Rsi(Rs(RollingMean(gains, k, RsiWindow),
                              RollingMean(losses, k, RsiWindow))),
               macd |-> Num(macd[k]),
               macd_signal |-> Num(macd_signal[k]),
               bb_middle |-> bb_middle,
               bb_upper |-> IF bb_middle.nan THEN NaN
                            ELSE Rat(bb_middle.v + TwoStd(close, k, BollingerWindow),
                                     BollingerWindow),
               bb_lower |-> IF bb_middle.nan THEN NaN
                            ELSE Rat(bb_middle.v - TwoStd(close, k, BollingerWindow),
                                     BollingerWindow)]]

(* ---- the state machine of a symbol's daily evaluations on its prices ---- *)
SeriesBars == 60
MaxMoves == 3
FlatBars == SeriesBars - MaxMoves

BaseClose == 10
BaseVolumes == {0, 1}
Moves == {-1, 0, 1}
VolumeSpike == 3

\* The series as it was FlatBars bars in: an unchanged close, a steady volume.
IndicatorsInit ==
    /\ \E v \in BaseVolumes :
         price_data = [k \in 1..FlatBars |-> [close |-> BaseClose, volume |-> v]]
    /\ df = <<>>
    /\ config \in TrendConfigs
    /\ signals = [kind |-> "none"]
    /\ signal = [kind |-> "none"]
    /\ call = [bar |-> 0]
    /\ macd_awards = <<>>
    /\ PortfolioIdle
    /\ YearlyIdle
    /\ RankingIdle
    /\ OthersIdle

\* The next day's fetch returns the series one bar longer (process_positions,
\* lines 298-305): the close moves by one of Moves, the volume is the steady
\* one or VolumeSpike times it.
FetchBar ==
    /\ Len(price_data) < SeriesBars
    /\ \E move \in Moves, spike \in {1, VolumeSpike} :
         price_data' = Append(price_data,
             [close |-> price_data[Len(price_data)].close + move,
              volume |-> price_data[1].volume * spike])
    /\ df' = <<>>
    /\ signals' = [kind |-> "none"]
    /\ signal' = [kind |-> "none"]
    /\ call' = [bar |-> 0]
    /\ UNCHANGED <<config, macd_awards>>
    /\ UNCHANGED <<pvars, yvars, rvars, xvars>>

\* get_trend_signals, called once on the detector built over the fetched
\* series (lines 303-307): calculate_indicators, then identify_trend
GetTrendSignalsOnPrices ==
    /\ df = <<>>
    /\ df' = calculate_indicators(price_data)
    /\ \E min_score \in MinScoreArgs, trend_type \in {"up", "down"} :
         /\ signals' = identify_trend(df', config, trend_type)
         /\ signal' = get_trend_signals(df', config, min_score, trend_type)
         /\ call' = [bar |-> Len(df'), min_score |-> min_score,
                     trend_type |-> trend_type]
    /\ UNCHANGED <<config, macd_awards, price_data>>
    /\ UNCHANGED <<pvars, yvars, rvars, xvars>>

IndicatorsNext ==
    \/ FetchBar
    \/ GetTrendSignalsOnPrices

SpecIndicators == IndicatorsInit /\ [][IndicatorsNext]_vars

(***************************************************************************)
(* Properties of the Trend Detector on a price series (checked under       *)
(* SpecIndicators)                                                         *)
(***************************************************************************)
FlatSeries ==
    /\ Len(price_data) = SeriesBars
    /\ \A k \in 1..Len(price_data) :
         /\ price_data[k].close = price_data[1].close
         /\ price_data[k].volume = 0

CalledOnSeries == df # <<>> /\ call.bar = Len(price_data)

\* C11: on a flat series of SeriesBars bars with zero volume, identify_trend
\* gives total_score 0 and every sub-score 0, for 'up' and for 'down', and
\* get_trend_signals called without a min_score returns None.
C11_FlatSeriesScoresNothing ==
    (FlatSeries /\ CalledOnSeries) =>
        /\ \A key \in ScoreKeys : signals[key] = 0
        /\ (~call.min_score.given => signal.kind = "None")

C11_Witness ==
    /\ FlatSeries
    /\ CalledOnSeries
    /\ call.trend_type = "down"
    /\ ~call.min_score.given
    /\ df[Len(df)].rsi.nan
    /\ df[Len(df)].volume_ratio.nan
    /\ signals.total_score = 0
    /\ signal.kind = "None"

\* the closes of the RsiWindow differences that end at bar k
Rises(k) ==
    \E j \in (k - RsiWindow + 1)..k :
        j > 1 /\ price_data[j].close > price_data[j - 1].close

Falls(k) ==
    \E j \in (k - RsiWindow + 1)..k :
        j > 1 /\ price_data[j].close < price_data[j - 1].close

\* C12: at every bar whose RsiWindow-bar window holds a price change the RSI
\* is a number in [0, 100]; it is 100 when the window holds rises and no
\* fall, and 0 when it holds falls and no rise.
C12_RsiBounded ==
    df # <<>> =>
        \A k \in RsiWindow..Len(df) :
            (Rises(k) \/ Falls(k)) =>
                /\ ~df[k].rsi.nan
                /\ Ge(df[k].rsi, Num(0))
                /\ Le(df[k].rsi, Num(100))
                /\ (~Falls(k) => Ge(df[k].rsi, Num(100)))
                /\ (~Rises(k) => Le(df[k].rsi, Num(0)))

C12_Witness ==
    /\ df # <<>>
    /\ \E k \in RsiWindow..Len(df) :
         Rises(k) /\ ~Falls(k) /\ Ge(df[k].rsi, Num(100))
    /\ \E k \in RsiWindow..Len(df) :
         Rises(k) /\ Falls(k) /\ Gt(df[k].rsi, Num(0)) /\ Lt(df[k].rsi, Num(100))

(***************************************************************************)
(* Fundamental Ranking Engine: StockAnalyzer.get_yearly_metrics            *)
(*                                                                         *)
(* statements is what the provider answers for one symbol: the quarterly   *)
(* and the annual income statements and balance sheets, most recent first. *)
(* A field of a statement is a number, null, or missing from the record.   *)
(* The metrics dict is the set of its entries; the value of an entry is    *)
(* the exact fraction n / d.                                               *)
(***************************************************************************)
current_year == 2025
years == 2
TtmQuarters == 4

Field(x) == [kind |-> "num", v |-> x]
Null == [kind |-> "null", v |-> 0]
Absent == [kind |-> "absent", v |-> 0]

\* `if x:` on the value of dict.get(key): None and 0 are falsy
Truthy(field) == field.kind = "num" /\ field.v # 0

\* dict.get(key, 0): the default replaces a missing key, not a null
GetOrZero(field) == IF field.kind = "num" THEN field.v ELSE 0

\* arithmetic on a null raises TypeError
IsNull(field) == field.kind = "null"

\* next((x for x in stmts if x['date'].startswith(str(year))), {}): the
\* first record of the year, as a sequence of one, or the empty dict
OfYear(stmts, year) ==
    LET hits == {k \in 1..Len(stmts) : stmts[k].year = year}
    IN  IF hits = {} THEN <<>>
        ELSE <<stmts[CHOOSE k \in hits : \A j \in hits : k <= j]>>

Entry(metric, year, n, d) == [metric |-> metric, year |-> year, n |-> n, d |-> d]

Quarters(st) ==
    SubSeq(st.ttm_income, 1,
           IF Len(st.ttm_income) < TtmQuarters THEN Len(st.ttm_income)
           ELSE TtmQuarters)

\* lines 77-89: the trailing twelve months, under the key of the current year
TtmMetrics(st) ==
    LET quarters == Quarters(st)
        balance == st.ttm_balance[1]
        ttm_ebit == SumSeq([k \in 1..Len(quarters) |->
                               GetOrZero(quarters[k].operatingIncome)])
        ttm_revenue == SumSeq([k \in 1..Len(quarters) |->
                                  GetOrZero(quarters[k].revenue)])
        ttm_capital == GetOrZero(balance.totalAssets)
                         - GetOrZero(balance.totalCurrentLiabilities)
        last_year_revenue == IF st.income_stmt # <<>>
                             THEN st.income_stmt[1].revenue ELSE Absent
    IN  IF ttm_capital # 0 /\ ttm_revenue # 0
        THEN {Entry("roce", current_year, ttm_ebit, ttm_capital),
              Entry("operating_margin", current_year, ttm_ebit, ttm_revenue)}
             \cup (IF Truthy(last_year_revenue)
                   THEN {Entry("revenue_growth", current_year,
                               ttm_revenue - last_year_revenue.v,
                               last_year_revenue.v)}
                   ELSE {})
        ELSE {}

\* lines 92-108: one pass of the loop over the annual years
YearMetrics(st, year) ==
    LET year_data == OfYear(st.income_stmt, year)
        balance_data == OfYear(st.balance_sheet, year)
        prev_year_data == OfYear(st.income_stmt, year - 1)
    IN  IF year_data = <<>> \/ balance_data = <<>> THEN {}
        ELSE
          LET ebit == year_data[1].operatingIncome
              capital_employed == GetOrZero(balance_data[1].totalAssets)
                                    - GetOrZero(balance_data[1].totalCurrentLiabilities)
              revenue == year_data[1].revenue
              prev_revenue == IF prev_year_data = <<>> THEN Absent
                              ELSE prev_year_data[1].revenue
          IN  IF capital_employed # 0 /\ Truthy(revenue) /\ Truthy(ebit)
              THEN {Entry("roce", year, ebit.v, capital_employed),
                    Entry("operating_margin", year, ebit.v, revenue.v)}
                   \cup (IF Truthy(prev_revenue) /\ Truthy(revenue)
                         THEN {Entry("revenue_growth", year,
                                     revenue.v - prev_revenue.v, prev_revenue.v)}
                         ELSE {})
              ELSE {}

LoopYears == (current_year - years)..(current_year - 1)

\* the TypeError of a null in the sums of lines 78-81 or in line 97-98
ComputationRaises(st) ==
    \/ \E k \in 1..Len(Quarters(st)) :
         IsNull(Quarters(st)[k].operatingIncome) \/ IsNull(Quarters(st)[k].revenue)
    \/ IsNull(st.ttm_balance[1].totalAssets)
    \/ IsNull(st.ttm_balance[1].totalCurrentLiabilities)
    \/ \E year \in LoopYears :
         /\ OfYear(st.income_stmt, year) # <<>>
         /\ OfYear(st.balance_sheet, year) # <<>>
         /\ \/ IsNull(OfYear(st.balance_sheet, year)[1].totalAssets)
            \/ IsNull(OfYear(st.balance_sheet, year)[1].totalCurrentLiabilities)

NoQuarters(st) == st.ttm_income = <<>> \/ st.ttm_balance = <<>>

get_yearly_metrics(st) ==
    IF st.request_raises THEN {}
    ELSE IF NoQuarters(st) THEN {}
    ELSE IF ComputationRaises(st) THEN {}
    ELSE TtmMetrics(st) \cup UNION {YearMetrics(st, year) : year \in LoopYears}

(***************************************************************************)
(* Fundamental Ranking Engine: StockAnalyzer.analyze_stocks                *)
(*                                                                         *)
(* A frame is the sequence of its rows, each under its index label.  The   *)
(* yearly metric columns of a row are the set of its defined cells         *)
(* [metric, year, h], h the percentage in hundredths (col * 100 rounded    *)
(* to 2 places); a cell that is missing is NaN.  Weights and final_score   *)
(* are in hundredths.  Missing is the NaN of an object column.             *)
(***************************************************************************)
Missing == "NaN"

RECURSIVE SortedSeq(_)
SortedSeq(S) ==
    IF S = {} THEN <<>>
    ELSE LET m == CHOOSE x \in S : \A y \in S : x <= y
         IN  <<m>> \o SortedSeq(S \ {m})

Range(seq) == {seq[k] : k \in 1..Len(seq)}

RECURSIVE GCD(_, _)
GCD(a, b) == IF b = 0 THEN a ELSE GCD(b, a % b)

Abs(x) == IF x < 0 THEN -x ELSE x

\* the fraction n / d, d # 0, in lowest terms with a positive denominator
Reduce(n, d) ==
    LET g == GCD(Abs(n), Abs(d))
    IN  IF d < 0 THEN Rat(-(n \div g), (-d) \div g) ELSE Rat(n \div g, d \div g)

\* the product of two fractions in lowest terms
Times(a, b) ==
    LET x == Reduce(a.v, b.d)
        y == Reduce(b.v, a.d)
    IN  Rat(x.v * y.v, x.d * y.d)

\* get_market_cap_stocks, lines 43-45: the rows whose symbol holds no '.' or
\* ':' stay, under the index labels of the response
get_market_cap_stocks(response, dotted) ==
    SelectSeq([k \in 1..Len(response) |->
                  [index |-> k - 1, symbol |-> response[k].symbol,
                   sector |-> response[k].sector]],
              LAMBDA r : r.symbol \notin dotted)

\* The index of pd.concat(axis=1): the union of the two indexes.  Equal
\* indexes are kept; otherwise the union comes sorted or as the left index
\* followed by the new labels of the right one, by the pandas release.
UnionIndex(left, right, how) ==
    IF left = right THEN left
    ELSE IF how = "sorted" THEN SortedSeq(Range(left) \cup Range(right))
    ELSE left \o SelectSeq(right, LAMBDA x : x \notin Range(left))

Labels(frame) == [k \in 1..Len(frame) |-> frame[k].index]
RangeIndex(n) == [k \in 1..n |-> k - 1]

RowAt(frame, label) == frame[CHOOSE k \in 1..Len(frame) : frame[k].index = label]

\* (df[col] * 100).round(2), lines 134-136
Percent(m) ==
    {[metric |-> e.metric, year |-> e.year, h |-> RoundHalfEven(10000 * e.n, e.d)]
       : e \in m}

\* lines 131-136: metrics_df under a RangeIndex beside base_df
ConcatMetrics(base, mdata, how) ==
    LET labels == UnionIndex(Labels(base), RangeIndex(Len(mdata)), how)
    IN  [i \in 1..Len(labels) |->
          LET l == labels[i]
              known == l \in Range(Labels(base))
          IN  [index |-> l,
               symbol |-> IF known THEN RowAt(base, l).symbol ELSE Missing,
               sector |-> IF known THEN RowAt(base, l).sector ELSE Missing,
               values |-> IF l < Len(mdata) THEN Percent(mdata[l + 1]) ELSE {}]]

\* the years of the columns metric_<year> of the frame
Cols(frame, metric) ==
    {e.year : e \in {x \in UNION {frame[i].values : i \in 1..Len(frame)} :
                        x.metric = metric}}

Cell(row, metric, year) ==
    LET hit == {e \in row.values : e.metric = metric /\ e.year = year}
    IN  IF hit = {} THEN NaN ELSE Num((CHOOSE e \in hit : TRUE).h)

\* row[cols[-1]] if cols else np.nan: the cell of the last column
LastCell(frame, row, metric) ==
    IF Cols(frame, metric) = {} THEN NaN
    ELSE Cell(row, metric,
              CHOOSE y \in Cols(frame, metric) : \A z \in Cols(frame, metric) : z <= y)

\* stats.linregress(years, values): slope * r_value ** 2, on n-fold sums;
\* r_value is 0 when the values do not vary
SlopeTimesRSquared(yrs, vals) ==
    LET n == Len(yrs)
        sx == SumSeq(yrs)
        sy == SumSeq(vals)
        cxx == n * SumSeq([k \in 1..n |-> yrs[k] * yrs[k]]) - sx * sx
        cxy == n * SumSeq([k \in 1..n |-> yrs[k] * vals[k]]) - sx * sy
        cyy == n * SumSeq([k \in 1..n |-> vals[k] * vals[k]]) - sy * sy
    IN  IF cyy = 0 THEN Rat(0, 1)
        ELSE Times(Reduce(cxy, cxx), Reduce(cxy * cxy, cxx * cyy))

calculate_regression_or_zero(yrs, vals) ==
    IF Len(vals) > 1 THEN SlopeTimesRSquared(yrs, vals) ELSE Rat(0, 1)

\* _calculate_regression, lines 172-176
calculate_regression(yrs, vals) ==
    IF Len(vals) > 1 THEN SlopeTimesRSquared(yrs, vals) ELSE NaN

\* lines 155-156 and 162: the defined cells of the row, by year
Growth(row, metric) ==
    LET yrs == SortedSeq({e.year : e \in {x \in row.values : x.metric = metric}})
        vals == [k \in 1..Len(yrs) |-> Cell(row, metric, yrs[k]).v]
    IN  IF Len(vals) > 0 THEN calculate_regression(yrs, vals) ELSE NaN

\* _calculate_growth_metrics: one result per row, in the order of the rows
calculate_growth_metrics(frame) ==
    [i \in 1..Len(frame) |->
       [roce_growth |-> Growth(frame[i], "roce"),
        roce_current_year |-> LastCell(frame, frame[i], "roce"),
        operating_margin_growth |-> Growth(frame[i], "operating_margin"),
        operating_margin_current_year |->
            LastCell(frame, frame[i], "operating_margin"),
        revenue_growth_current_year |->
            LastCell(frame, frame[i], "revenue_growth")]]

NoGrowth ==
    [roce_growth |-> NaN, roce_current_year |-> NaN,
     operating_margin_growth |-> NaN, operating_margin_current_year |-> NaN,
     revenue_growth_current_year |-> NaN]

\* line 142: the results, under a RangeIndex, beside df
ConcatGrowth(frame, growth, how) ==
    LET labels == UnionIndex(Labels(frame), RangeIndex(Len(growth)), how)
    IN  [i \in 1..Len(labels) |->
          LET l == labels[i]
              known == l \in Range(Labels(frame))
          IN  [index |-> l,
               symbol |-> IF known THEN RowAt(frame, l).symbol ELSE Missing,
               sector |-> IF known THEN RowAt(frame, l).sector ELSE Missing,
               values |-> IF known THEN RowAt(frame, l).values ELSE {}]
              @@ (IF l < Len(growth) THEN growth[l + 1] ELSE NoGrowth)]

\* lines 180-186
DefaultWeights ==
    [roce_growth_rank |-> 25, roce_current_year_rank |-> 20,
     operating_margin_growth_rank |-> 25,
     operating_margin_current_year_rank |-> 20,
     revenue_growth_current_year_rank |-> 10]

RankDescNaKeep(col, members, k) ==
    IF col[k].nan THEN NaN
    ELSE Num(1 + Cardinality({j \in members : Gt(col[j], col[k])}))

\* Series.rank(ascending=False, method='min', na_option='bottom') of the
\* rows `members`, at row k
RankDesc(col, members, k) ==
    IF col[k].nan THEN Num(1 + Cardinality({j \in members : ~col[j].nan}))
    ELSE Num(1 + Cardinality({j \in members : Gt(col[j], col[k])}))

\* Series.rank(method='min'): ascending, NaN stays NaN
RankAsc(col, k) ==
    IF col[k].nan THEN NaN
    ELSE Num(1 + Cardinality({j \in 1..Len(col) : Lt(col[j], col[k])}))

SectorMaskAll(rows, sector) == 1..Len(rows)

\* sector_mask = df['sector'] == sector: no row equals a missing sector
SectorMask(rows, sector) ==
    IF sector = Missing THEN {}
    ELSE {j \in 1..Len(rows) : rows[j].sector = sector}

\* lines 194-200: the rank among the rows of the sector; a row under no
\* mask is never assigned
SectorRank(rows, metric, k) ==
    IF k \in SectorMask(rows, rows[k].sector)
    THEN RankDesc(Column(rows, metric), SectorMask(rows, rows[k].sector), k)
    ELSE NaN

RankKeys == {"roce_growth_rank", "operating_margin_growth_rank",
             "revenue_growth_current_year_rank", "roce_current_year_rank",
             "operating_margin_current_year_rank"}

\* lines 191-200
Ranks(rows, k) ==
    [roce_growth_rank |-> RankDesc(Column(rows, "roce_growth"), 1..Len(rows), k),
     operating_margin_growth_rank |->
         RankDesc(Column(rows, "operating_margin_growth"), 1..Len(rows), k),
     revenue_growth_current_year_rank |->
         RankDesc(Column(rows, "revenue_growth_current_year"), 1..Len(rows), k),
     roce_current_year_rank |-> SectorRank(rows, "roce_current_year", k),
     operating_margin_current_year_rank |->
         SectorRank(rows, "operating_margin_current_year", k)]

\* lines 202-203: the weighted sum; a NaN rank makes it NaN
FinalScore(ranks, w) ==
    IF \E key \in RankKeys : ranks[key].nan THEN NaN
    ELSE Num(ranks.roce_growth_rank.v * w.roce_growth_rank
             + ranks.operating_margin_growth_rank.v * w.operating_margin_growth_rank
             + ranks.revenue_growth_current_year_rank.v
                 * w.revenue_growth_current_year_rank
             + ranks.roce_current_year_rank.v * w.roce_current_year_rank
             + ranks.operating_margin_current_year_rank.v
                 * w.operating_margin_current_year_rank)

\* sort_values('final_rank'): ascending, NaN last
RECURSIVE InsertByFinalRank(_, _)
InsertByFinalRank(sorted, row) ==
    IF sorted = <<>> THEN <<row>>
    ELSE IF Lt(row.final_rank, Head(sorted).final_rank)
            \/ (~row.final_rank.nan /\ Head(sorted).final_rank.nan)
         THEN <<row>> \o sorted
         ELSE <<Head(sorted)>> \o InsertByFinalRank(Tail(sorted), row)

RECURSIVE SortByFinalRank(_)
SortByFinalRank(rows) ==
    IF rows = <<>> THEN <<>>
    ELSE InsertByFinalRank(SortByFinalRank(SubSeq(rows, 1, Len(rows) - 1)),
                           rows[Len(rows)])

\* _calculate_rankings, lines 178-206; weights is None or the caller's dict
calculate_rankings(rows, w) ==
    LET used == IF w.kind = "None" THEN DefaultWeights ELSE w.dict
        scored == [k \in 1..Len(rows) |->
                     rows[k] @@ Ranks(rows, k)
                       @@ [final_score |-> FinalScore(Ranks(rows, k), used)]]
        score == SubSeq(Column(scored, "final_score"), 1, Len(rows))
    IN  SortByFinalRank([k \in 1..Len(rows) |->
                            scored[k] @@ [final_rank |-> RankAsc(score, k)]])

\* analyze_stocks, lines 115-145, on the screener response, the weights
\* argument and the index union of this pandas
analyze_stocks(response, statements_of, dotted, w, how) ==
    LET base == get_market_cap_stocks(response, dotted)
        mdata == [k \in 1..Len(base) |->
                    get_yearly_metrics(statements_of[base[k].symbol])]
        joined == ConcatMetrics(base, mdata, how) \o <<>>
        grown == calculate_growth_metrics(joined) \o <<>>
        full == ConcatGrowth(joined, grown, how) \o <<>>
    IN  IF base = <<>> THEN <<>> ELSE calculate_rankings(full, w)

(***************************************************************************)
(* The universe of the ranking runs.  Capital employed is 1000 and annual  *)
(* revenue 500 throughout, so ROCE and operating margin are EBIT / 1000    *)
(* and EBIT / 500.                                                         *)
(***************************************************************************)
MaxStocks == 3

Quarter(ebit, revenue) ==
    [operatingIncome |-> Field(ebit), revenue |-> Field(revenue)]
QuarterBalance ==
    [totalAssets |-> Field(1500), totalCurrentLiabilities |-> Field(500)]
Annual(year, ebit) ==
    [year |-> year, operatingIncome |-> Field(ebit), revenue |-> Field(500)]
AnnualBalance(year) ==
    [year |-> year, totalAssets |-> Field(1500),
     totalCurrentLiabilities |-> Field(500)]

\* four quarters that sum to the EBIT and to a revenue of 500
Ttm(ebit) ==
    <<Quarter(ebit, 200), Quarter(0, 100), Quarter(0, 100), Quarter(0, 100)>>
\* four quarters without revenue: no metric of the current year
NoTtm == <<Quarter(0, 0), Quarter(0, 0), Quarter(0, 0), Quarter(0, 0)>>

Statements(raises, quarters, annual) ==
    [request_raises |-> raises,
     ttm_income |-> quarters,
     ttm_balance |-> <<QuarterBalance>>,
     income_stmt |-> annual,
     balance_sheet |-> [k \in 1..Len(annual) |-> AnnualBalance(annual[k].year)]]

DottedSymbols == {"E.X"}
StockSymbols == {"A", "B", "C", "D", "E.X", "F", "G", "H"}

Sector ==
    [sym \in StockSymbols |->
       CASE sym \in {"A", "B", "E.X", "H"} -> "Technology"
         [] sym \in {"C", "D", "G"} -> "Energy"
         [] OTHER -> Missing]

Provider ==
    [sym \in StockSymbols |->
       CASE sym = "A" ->
              Statements(FALSE, Ttm(30),
                         <<Annual(current_year - 1, 20), Annual(current_year - 2, 10)>>)
         [] sym = "B" ->
              Statements(FALSE, Ttm(40), <<Annual(current_year - 1, 50)>>)
         [] sym = "C" ->
              Statements(FALSE, NoTtm, <<Annual(current_year - 1, 30)>>)
         [] sym = "D" ->
              Statements(FALSE, Ttm(10), <<Annual(current_year - 1, 10)>>)
         [] sym = "E.X" ->
              Statements(FALSE, Ttm(60), <<Annual(current_year - 1, 60)>>)
         [] sym = "F" ->
              Statements(FALSE, Ttm(50),
                         <<Annual(current_year - 1, 20), Annual(current_year - 2, 30)>>)
         [] sym = "G" -> Statements(TRUE, <<>>, <<>>)
         [] OTHER -> Statements(FALSE, <<>>, <<>>)]

\* screener responses: up to MaxStocks distinct symbols in any order
RECURSIVE Responses(_)
Responses(n) ==
    IF n = 0 THEN {<<>>}
    ELSE Responses(n - 1)
           \cup {Append(r, [symbol |-> sym, sector |-> Sector[sym]]) :
                   r \in {x \in Responses(n - 1) : Len(x) = n - 1},
                   sym \in StockSymbols}

DistinctSymbols(r) ==
    \A i, j \in 1..Len(r) : r[i].symbol = r[j].symbol => i = j

CustomWeights ==
    [roce_growth_rank |-> 10, roce_current_year_rank |-> 40,
     operating_margin_growth_rank |-> 10,
     operating_margin_current_year_rank |-> 30,
     revenue_growth_current_year_rank |-> 10]
WeightArgs == {[kind |-> "None", dict |-> DefaultWeights],
               [kind |-> "dict", dict |-> CustomWeights]}

RankingInit ==
    /\ screener \in {r \in Responses(MaxStocks) : DistinctSymbols(r)}
    /\ weights \in WeightArgs
    /\ index_union \in {"sorted", "appended"}
    /\ base_df = <<>>
    /\ metrics_data = <<>>
    /\ rpc = "screen"
    /\ stocks_df = <<>>
    /\ growth_metrics = <<>>
    /\ ranked = [kind |-> "none"]
    /\ PortfolioIdle
    /\ TrendIdle
    /\ IndicatorsIdle
    /\ YearlyIdle
    /\ OthersIdle

\* lines 116-118 with get_market_cap_stocks answering
GetMarketCapStocks ==
    /\ rpc = "screen"
    /\ base_df' = get_market_cap_stocks(screener, DottedSymbols)
    /\ IF base_df' = <<>>
       THEN rpc' = "done" /\ ranked' = [kind |-> "table", rows |-> <<>>]
       ELSE rpc' = "loop" /\ UNCHANGED ranked
    /\ UNCHANGED <<screener, metrics_data, stocks_df, growth_metrics, weights,
                   index_union>>
    /\ UNCHANGED <<pvars, tvars, ivars, yvars, xvars>>

\* lines 46-48 and 117-118: the screener request raises RequestException
ScreenerRaises ==
    /\ rpc = "screen"
    /\ base_df' = <<>>
    /\ rpc' = "done"
    /\ ranked' = [kind |-> "table", rows |-> <<>>]
    /\ UNCHANGED <<screener, metrics_data, stocks_df, growth_metrics, weights,
                   index_union>>
    /\ UNCHANGED <<pvars, tvars, ivars, yvars, xvars>>

ProcessStockAborting ==
    /\ rpc = "loop"
    /\ Len(metrics_data) < Len(base_df)
    /\ IF get_yearly_metrics(Provider[base_df[Len(metrics_data) + 1].symbol]) = {}
       THEN /\ rpc' = "done"
            /\ ranked' = [kind |-> "table", rows |-> <<>>]
            /\ UNCHANGED metrics_data
       ELSE /\ metrics_data' =
                 Append(metrics_data,
                        get_yearly_metrics(
                            Provider[base_df[Len(metrics_data) + 1].symbol]))
            /\ UNCHANGED <<rpc, ranked>>
    /\ UNCHANGED <<screener, base_df, stocks_df, growth_metrics, weights,
                   index_union>>
    /\ UNCHANGED <<pvars, tvars, ivars, yvars, xvars>>

\* lines 123-127: one pass of the loop over base_df
ProcessStock ==
    /\ rpc = "loop"
    /\ Len(metrics_data) < Len(base_df)
    /\ metrics_data' =
         Append(metrics_data,
                get_yearly_metrics(Provider[base_df[Len(metrics_data) + 1].symbol]))
    /\ UNCHANGED <<screener, base_df, rpc, stocks_df, growth_metrics, weights,
                   index_union, ranked>>
    /\ UNCHANGED <<pvars, tvars, ivars, yvars, xvars>>

\* lines 131-139
BuildFrame ==
    /\ rpc = "loop"
    /\ Len(metrics_data) = Len(base_df)
    /\ stocks_df' = ConcatMetrics(base_df, metrics_data, index_union)
    /\ rpc' = "growth"
    /\ UNCHANGED <<screener, base_df, metrics_data, growth_metrics, weights,
                   index_union, ranked>>
    /\ UNCHANGED <<pvars, tvars, ivars, yvars, xvars>>

\* the call of _calculate_growth_metrics in line 142
CalculateGrowthMetrics ==
    /\ rpc = "growth"
    /\ growth_metrics' = calculate_growth_metrics(stocks_df)
    /\ rpc' = "rank"
    /\ UNCHANGED <<screener, base_df, metrics_data, stocks_df, weights,
                   index_union, ranked>>
    /\ UNCHANGED <<pvars, tvars, ivars, yvars, xvars>>

\* the concat of line 142 and the call of _calculate_rankings in line 145
CalculateRankings ==
    /\ rpc = "rank"
    /\ stocks_df' = ConcatGrowth(stocks_df, growth_metrics, index_union)
    /\ ranked' = [kind |-> "table", rows |-> calculate_rankings(stocks_df', weights)]
    /\ rpc' = "done"
    /\ UNCHANGED <<screener, base_df, metrics_data, growth_metrics, weights,
                   index_union>>
    /\ UNCHANGED <<pvars, tvars, ivars, yvars, xvars>>

RankingNext ==
    \/ GetMarketCapStocks
    \/ ScreenerRaises
    \/ ProcessStock
    \/ BuildFrame
    \/ CalculateGrowthMetrics
    \/ CalculateRankings

SpecRanking == RankingInit /\ [][RankingNext]_vars

(***************************************************************************)
(* Claims on _calculate_rankings.  The frame the function was given is     *)
(* stocks_df once analyze_stocks is done, and the table it returned is     *)
(* ranked.rows; a row is known by its index label.                         *)
(***************************************************************************)
Ranked == rpc = "done" /\ ranked.rows # <<>>
Table == ranked.rows
SectorRankOf(metric) ==
    IF metric = "roce_current_year" THEN "roce_current_year_rank"
    ELSE "operating_margin_current_year_rank"
SectorMetrics == {"roce_current_year", "operating_margin_current_year"}
SameSector(k) == {j \in 1..Len(Table) : Table[j].sector = Table[k].sector}
StrictlyHigher(rows, metric, k) ==
    {j \in rows : ~Table[j][metric].nan /\ ~Table[k][metric].nan
                  /\ Table[j][metric].v > Table[k][metric].v}
DefinedIn(rows, metric) == {j \in rows : ~Table[j][metric].nan}
\* the table _calculate_rankings returns for the rows of one sector alone
AloneTable(sector) ==
    calculate_rankings(SelectSeq(stocks_df, LAMBDA r : r.sector = sector), weights)

\* C13: the two sector-relative ranks of a symbol of sector S are 1 + the
\* number of symbols of S with a strictly higher value (an undefined value
\* counting as lower than every defined one), lie in 1..|S|, and are the
\* ranks the symbol gets when the rows outside S are removed.
C13_SectorRanksWithinSector ==
    Ranked =>
      \A k \in 1..Len(Table) : \A metric \in SectorMetrics :
        Table[k].sector # Missing =>
          LET rank == Table[k][SectorRankOf(metric)]
              S == SameSector(k)
          IN  /\ ~rank.nan
              /\ rank.v \in 1..Cardinality(S)
              /\ rank.v = IF Table[k][metric].nan
                          THEN 1 + Cardinality(DefinedIn(S, metric))
                          ELSE 1 + Cardinality(StrictlyHigher(S, metric, k))
              /\ \E a \in 1..Len(AloneTable(Table[k].sector)) :
                   /\ AloneTable(Table[k].sector)[a].index = Table[k].index
                   /\ AloneTable(Table[k].sector)[a][SectorRankOf(metric)] = rank

\* a symbol with a defined value that shares its sector, while a symbol of
\* another sector has a strictly higher value
C13_Witness ==
    /\ Ranked
    /\ \E k \in 1..Len(Table) :
         /\ Table[k].sector # Missing
         /\ Cardinality(SameSector(k)) >= 2
         /\ StrictlyHigher(1..Len(Table), "roce_current_year", k) # {}
         /\ StrictlyHigher(SameSector(k), "roce_current_year", k) = {}
         /\ Table[k].roce_current_year_rank = Num(1)

\* the response with the rows at i and j exchanged
Swapped(response, i, j) ==
    [k \in 1..Len(response) |->
       IF k = i THEN response[j] ELSE IF k = j THEN response[i] ELSE response[k]]
\* what a table says of a symbol
ScoreAndRank(table, sym) ==
    {<<table[k].final_score, table[k].final_rank>> :
       k \in {j \in 1..Len(table) : table[j].symbol = sym}}
Universe == {screener[k].symbol : k \in 1..Len(screener)} \ DottedSymbols

\* C14: the final_score and final_rank of every symbol are the same for
\* every ordering of the rows of the input universe (exchanges of two rows
\* generate every ordering).
C14_FinalRankOrderInvariant ==
    Ranked =>
      \A i, j \in 1..Len(screener) : \A sym \in Universe :
        ScoreAndRank(analyze_stocks(Swapped(screener, i, j), Provider,
                                    DottedSymbols, weights, index_union), sym)
          = ScoreAndRank(Table, sym)

\* the weights the caller meant, in hundredths
WeightsMeant ==
    IF weights.kind = "None"
    THEN [roce_growth_rank |-> 25, operating_margin_growth_rank |-> 25,
          revenue_growth_current_year_rank |-> 10,
          roce_current_year_rank |-> 20,
          operating_margin_current_year_rank |-> 20]
    ELSE weights.dict
RECURSIVE WeightedSum(_, _)
WeightedSum(row, keys) ==
    IF keys = {} THEN 0
    ELSE LET key == CHOOSE x \in keys : TRUE
         IN  row[key].v * WeightsMeant[key] + WeightedSum(row, keys \ {key})
StrictlyLowerScore(k) ==
    {j \in 1..Len(Table) : ~Table[j].final_score.nan /\ ~Table[k].final_score.nan
                           /\ Table[j].final_score.v < Table[k].final_score.v}

\* C15: final_score is the weighted sum of the five ranks under the caller's
\* weights (the defaults when none are given), final_rank is 1 + the number
\* of symbols with a strictly lower final_score, and the table is sorted by
\* final_rank.
C15_FinalRankIsCompetitionRank ==
    Ranked =>
      /\ \A k \in 1..Len(Table) :
           /\ (\A key \in RankKeys : ~Table[k][key].nan)
                => Table[k].final_score = Num(WeightedSum(Table[k], RankKeys))
           /\ Table[k].final_rank = Num(1 + Cardinality(StrictlyLowerScore(k)))
      /\ \A k \in 1..(Len(Table) - 1) :
           Table[k].final_rank.v <= Table[k + 1].final_rank.v

\* the rows a row is ranked among in the ranking of a metric
Population(metric, k) ==
    IF metric \in SectorMetrics
    THEN (IF Table[k].sector = Missing THEN {} ELSE SameSector(k))
    ELSE 1..Len(Table)
RankOf(metric) ==
    CASE metric = "roce_growth" -> "roce_growth_rank"
      [] metric = "operating_margin_growth" -> "operating_margin_growth_rank"
      [] metric = "revenue_growth_current_year" -> "revenue_growth_current_year_rank"
      [] OTHER -> SectorRankOf(metric)
RankedMetrics == {"roce_growth", "operating_margin_growth",
                  "revenue_growth_current_year"} \cup SectorMetrics
SameValue(a, b) == ~a.nan /\ ~b.nan /\ a.v * Den(b) = b.v * Den(a)

\* C16: in each of the five rankings an undefined value ranks strictly after
\* every defined value of the same population, and equal defined values
\* share one rank, the least of the tied positions.
C16_UndefinedLastTiesShare ==
    Ranked =>
      \A metric \in RankedMetrics : \A k \in 1..Len(Table) :
        \A j \in Population(metric, k) :
          /\ (Table[k][metric].nan /\ ~Table[j][metric].nan)
               => Gt(Table[k][RankOf(metric)], Table[j][RankOf(metric)])
          /\ SameValue(Table[k][metric], Table[j][metric])
               => /\ Table[k][RankOf(metric)] = Table[j][RankOf(metric)]
                  /\ Table[k][RankOf(metric)].v =
                       1 + Cardinality({i \in Population(metric, k) :
                                          Gt(Table[i][metric], Table[k][metric])})

\* an undefined value beside a defined one in one sector, and two symbols
\* tied on a defined value
C16_Witness ==
    /\ Ranked
    /\ \E k, j \in 1..Len(Table) :
         /\ j \in Population("roce_current_year", k)
         /\ Table[k].roce_current_year.nan
         /\ ~Table[j].roce_current_year.nan
    /\ \E k, j \in 1..Len(Table) : \E metric \in RankedMetrics :
         /\ k # j
         /\ j \in Population(metric, k)
         /\ SameValue(Table[k][metric], Table[j][metric])

(***************************************************************************)
(* Claims on _calculate_growth_metrics.  The frame the function was given  *)
(* is stocks_df when analyze_stocks stands before line 145, and the result *)
(* of row i is growth_metrics[i].                                          *)
(***************************************************************************)
GrowthDone == rpc = "rank"
DefinedYears(row, metric) == {e.year : e \in {x \in row.values : x.metric = metric}}
ValueIn(row, metric, year) ==
    (CHOOSE e \in row.values : e.metric = metric /\ e.year = year).h
\* slope times r squared of the least-squares line through the defined
\* years of the row, on deviations from the means scaled by the number of
\* points
LeastSquaresGrowth(row, metric) ==
    LET ys == SortedSeq(DefinedYears(row, metric))
        n == Len(ys)
        vs == [k \in 1..n |-> ValueIn(row, metric, ys[k])]
        dx == [k \in 1..n |-> n * ys[k] - SumSeq(ys)]
        dv == [k \in 1..n |-> n * vs[k] - SumSeq(vs)]
        sxy == SumSeq([k \in 1..n |-> dx[k] * dv[k]])
        sxx == SumSeq([k \in 1..n |-> dx[k] * dx[k]])
        svv == SumSeq([k \in 1..n |-> dv[k] * dv[k]])
    IN  IF svv = 0 THEN Rat(0, 1)
        ELSE Times(Reduce(sxy, sxx), Reduce(sxy * sxy, sxx * svv))
GrowthOf(metric) ==
    IF metric = "roce" THEN "roce_growth" ELSE "operating_margin_growth"

\* C17: roce_growth and operating_margin_growth are NaN when the symbol has
\* fewer than 2 defined yearly values of the metric, and slope times
\* r-squared of the least-squares fit of value against year otherwise.
C17_GrowthNeedsTwoYears ==
    GrowthDone =>
      \A i \in 1..Len(stocks_df) : \A metric \in {"roce", "operating_margin"} :
        IF Cardinality(DefinedYears(stocks_df[i], metric)) < 2
        THEN growth_metrics[i][GrowthOf(metric)].nan
        ELSE growth_metrics[i][GrowthOf(metric)]
               = LeastSquaresGrowth(stocks_df[i], metric)

\* one symbol with a single defined year, another with a slope over several
C17_Witness ==
    /\ GrowthDone
    /\ \E i \in 1..Len(stocks_df) :
         /\ Cardinality(DefinedYears(stocks_df[i], "roce")) = 1
         /\ growth_metrics[i].roce_growth.nan
    /\ \E i \in 1..Len(stocks_df) :
         /\ Cardinality(DefinedYears(stocks_df[i], "roce")) >= 2
         /\ ~growth_metrics[i].roce_growth.nan
         /\ growth_metrics[i].roce_growth.v # 0

CurrentOf(metric) ==
    IF metric = "roce" THEN "roce_current_year" ELSE "operating_margin_current_year"
LatestYear(row, metric) ==
    CHOOSE y \in DefinedYears(row, metric) :
      \A z \in DefinedYears(row, metric) : z <= y

\* C18: roce_current_year and operating_margin_current_year of a symbol are
\* its value of the most recent year in which the symbol itself has the
\* metric defined, and NaN only when it has no defined year, whatever years
\* the other symbols have.
C18_CurrentIsLatestOwnYear ==
    GrowthDone =>
      \A i \in 1..Len(stocks_df) : \A metric \in {"roce", "operating_margin"} :
        IF DefinedYears(stocks_df[i], metric) = {}
        THEN growth_metrics[i][CurrentOf(metric)].nan
        ELSE growth_metrics[i][CurrentOf(metric)]
               = Num(ValueIn(stocks_df[i], metric, LatestYear(stocks_df[i], metric)))

(***************************************************************************)
(* get_yearly_metrics on one symbol.  The provider holds annual statements *)
(* of the two years before the current one and the revenue of the year     *)
(* before them; EBIT 100, capital 1000, revenue 500 in the first year and  *)
(* EBIT 150, capital 1000, revenue 600 in the second are the full data.    *)
(***************************************************************************)
FirstYear == current_year - 2
SecondYear == current_year - 1

IncomeOf(year, ebits, revenues) ==
    {<<>>} \cup {<<[year |-> year, operatingIncome |-> e, revenue |-> r]>> :
                   e \in ebits, r \in revenues}
BalanceOf(year) ==
    {<<>>} \cup {<<[year |-> year, totalAssets |-> a,
                    totalCurrentLiabilities |-> Field(500)]>> :
                   a \in {Field(1500), Field(500), Null}}
EarlierIncome ==
    {<<>>} \cup {<<[year |-> FirstYear - 1, operatingIncome |-> Absent,
                    revenue |-> r]>> : r \in {Field(400), Field(0)}}

\* the quarterly responses: full, with no capital employed, empty
QuarterlySets ==
    {[ttm_income |-> Ttm(120), ttm_balance |-> <<QuarterBalance>>],
     [ttm_income |-> Ttm(120),
      ttm_balance |-> <<[totalAssets |-> Field(500),
                         totalCurrentLiabilities |-> Field(500)]>>],
     [ttm_income |-> <<>>, ttm_balance |-> <<>>]}

StatementSets ==
    {[request_raises |-> raises,
      ttm_income |-> q.ttm_income,
      ttm_balance |-> q.ttm_balance,
      income_stmt |-> i2 \o i1 \o i0,
      balance_sheet |-> b2 \o b1] :
        raises \in {FALSE}, q \in QuarterlySets,
        i2 \in IncomeOf(SecondYear, {Field(150), Field(0), Absent},
                        {Field(600), Field(0), Null, Absent}),
        i1 \in IncomeOf(FirstYear, {Field(100), Field(0), Null, Absent},
                        {Field(500), Field(0), Absent}),
        i0 \in EarlierIncome,
        b2 \in BalanceOf(SecondYear), b1 \in BalanceOf(FirstYear)}
      \cup {Statements(TRUE, <<>>, <<>>)}

YearlyInit ==
    /\ statements \in StatementSets
    /\ metrics = [kind |-> "none"]
    /\ PortfolioIdle
    /\ TrendIdle
    /\ IndicatorsIdle
    /\ RankingIdle
    /\ OthersIdle

\* lines 62-66: a quarterly response is empty
YearlyNoQuarters ==
    /\ metrics.kind = "none"
    /\ ~statements.request_raises
    /\ NoQuarters(statements)
    /\ metrics' = [kind |-> "dict", entries |-> get_yearly_metrics(statements)]
    /\ UNCHANGED statements
    /\ UNCHANGED <<pvars, tvars, ivars, rvars, xvars>>

\* lines 111-113: a request or the arithmetic raised
YearlyRaises ==
    /\ metrics.kind = "none"
    /\ \/ statements.request_raises
       \/ ~NoQuarters(statements) /\ ComputationRaises(statements)
    /\ metrics' = [kind |-> "dict", entries |-> get_yearly_metrics(statements)]
    /\ UNCHANGED statements
    /\ UNCHANGED <<pvars, tvars, ivars, rvars, xvars>>

\* line 110: the metrics gathered
YearlyReturns ==
    /\ metrics.kind = "none"
    /\ ~statements.request_raises
    /\ ~NoQuarters(statements)
    /\ ~ComputationRaises(statements)
    /\ metrics' = [kind |-> "dict", entries |-> get_yearly_metrics(statements)]
    /\ UNCHANGED statements
    /\ UNCHANGED <<pvars, tvars, ivars, rvars, xvars>>

YearlyNext ==
    \/ YearlyNoQuarters
    \/ YearlyRaises
    \/ YearlyReturns

SpecYearly == YearlyInit /\ [][YearlyNext]_vars

(***************************************************************************)
(* Claims on get_yearly_metrics, on the dict it returned.                  *)
(***************************************************************************)
MetricsReturned == metrics.kind = "dict"
Keyed(metric, year) ==
    {e \in metrics.entries : e.metric = metric /\ e.year = year}
\* the dict holds the key with the value n / d
Emits(metric, year, n, d) ==
    /\ Cardinality(Keyed(metric, year)) = 1
    /\ \A e \in Keyed(metric, year) : e.d # 0 /\ e.n * d = n * e.d
IsNumber(field) == field.kind = "num"
IncomeIn(year) == OfYear(statements.income_stmt, year)
BalanceIn(year) == OfYear(statements.balance_sheet, year)
EbitDefined(year) ==
    IncomeIn(year) # <<>> /\ IsNumber(IncomeIn(year)[1].operatingIncome)
RevenueDefined(year) ==
    IncomeIn(year) # <<>> /\ IsNumber(IncomeIn(year)[1].revenue)
CapitalDefined(year) ==
    /\ BalanceIn(year) # <<>>
    /\ IsNumber(BalanceIn(year)[1].totalAssets)
    /\ IsNumber(BalanceIn(year)[1].totalCurrentLiabilities)
CapitalIn(year) ==
    BalanceIn(year)[1].totalAssets.v - BalanceIn(year)[1].totalCurrentLiabilities.v
QuartersAnswered == ~statements.request_raises /\ ~NoQuarters(statements)

\* C19: for each annual year y of a symbol whose statements were fetched,
\* roce_y = EBIT / capital employed and operating_margin_y = EBIT / revenue
\* are emitted exactly when EBIT, revenue and capital employed are defined
\* for y and capital employed and revenue are not 0, an EBIT of 0 being
\* defined; otherwise neither key is in the dict.
C19_YearlyRoceAndMargin ==
    (MetricsReturned /\ QuartersAnswered) =>
      \A y \in LoopYears :
        IF /\ EbitDefined(y) /\ RevenueDefined(y) /\ CapitalDefined(y)
           /\ CapitalIn(y) # 0
           /\ IncomeIn(y)[1].revenue.v # 0
        THEN /\ Emits("roce", y, IncomeIn(y)[1].operatingIncome.v, CapitalIn(y))
             /\ Emits("operating_margin", y, IncomeIn(y)[1].operatingIncome.v,
                      IncomeIn(y)[1].revenue.v)
        ELSE Keyed("roce", y) = {} /\ Keyed("operating_margin", y) = {}

\* C20: for each annual year y, revenue_growth_y = (revenue_y -
\* revenue_{y-1}) / revenue_{y-1} is emitted exactly when revenue_y is
\* defined and the revenue of y - 1 is defined and not 0, whether or not
\* ROCE and operating margin of y could be computed.
C20_RevenueGrowthIndependent ==
    (MetricsReturned /\ QuartersAnswered) =>
      \A y \in LoopYears :
        IF /\ RevenueDefined(y) /\ RevenueDefined(y - 1)
           /\ IncomeIn(y - 1)[1].revenue.v # 0
        THEN Emits("revenue_growth", y,
                   IncomeIn(y)[1].revenue.v - IncomeIn(y - 1)[1].revenue.v,
                   IncomeIn(y - 1)[1].revenue.v)
        ELSE Keyed("revenue_growth", y) = {}

\* C27: every row of the table _calculate_rankings returns has a defined
\* final_score and a defined final_rank in 1..n, n the number of rows, also
\* a row without sector label and a row without any defined metric.
C27_EveryRowRanked ==
    Ranked =>
      \A k \in 1..Len(Table) :
        /\ ~Table[k].final_score.nan
        /\ ~Table[k].final_rank.nan
        /\ Table[k].final_rank.v \in 1..Len(Table)

\* the yearly metric cells computed from the statements of the symbol alone
OwnValues(sym) == Percent(get_yearly_metrics(Provider[sym]))
OwnRow(sym) == [values |-> OwnValues(sym)]
RowsOf(sym) == {k \in 1..Len(Table) : Table[k].symbol = sym}

\* C22: the returned table holds exactly one row per symbol of the filtered
\* universe and no other row, and the yearly metrics and the regression
\* growth metrics in the row of a symbol are those computed from its own
\* statements, whichever symbols were filtered out or failed.
C22_OneOwnRowPerSymbol ==
    Ranked =>
      /\ Len(Table) = Cardinality(Universe)
      /\ \A sym \in Universe :
           /\ Cardinality(RowsOf(sym)) = 1
           /\ \A k \in RowsOf(sym) :
                /\ Table[k].values = OwnValues(sym)
                /\ Table[k].roce_growth = Growth(OwnRow(sym), "roce")
                /\ Table[k].operating_margin_growth
                     = Growth(OwnRow(sym), "operating_margin")

\* the provider raises for the symbol or answers with no quarterly data
FetchFails(sym) ==
    Provider[sym].request_raises \/ Provider[sym].ttm_income = <<>>
       \/ Provider[sym].ttm_balance = <<>>

\* C21: the loop of analyze_stocks gives the k-th symbol of the universe
\* the k-th metrics record, an empty one when its fetch raised or came back
\* empty, and a batch over a non-empty universe ends with one record per
\* symbol and a table that holds a row of every symbol of the universe.
C21_FailuresDoNotAbort ==
    /\ Len(metrics_data) <= Len(base_df)
    /\ \A k \in 1..Len(metrics_data) :
         IF FetchFails(base_df[k].symbol) THEN metrics_data[k] = {}
         ELSE /\ metrics_data[k] # {}
              /\ metrics_data[k] = get_yearly_metrics(Provider[base_df[k].symbol])
    /\ (rpc = "done" /\ base_df # <<>>) =>
         /\ Len(metrics_data) = Len(base_df)
         /\ ranked.kind = "table"
         /\ Len(Table) >= Len(base_df)
         /\ \A k \in 1..Len(base_df) : RowsOf(base_df[k].symbol) # {}

\* a symbol whose fetch failed stands before one whose metrics were
\* collected, and the returned table holds both
C21_Witness ==
    /\ Ranked
    /\ \E k, j \in 1..Len(base_df) :
         /\ k < j
         /\ FetchFails(base_df[k].symbol)
         /\ metrics_data[j] # {}
         /\ RowsOf(base_df[k].symbol) # {}
         /\ RowsOf(base_df[j].symbol) # {}

(***************************************************************************)
(* StockAnalyzer._make_request, called by get_yearly_metrics for one       *)
(* statement endpoint.  str(e) of a request error is the sequence of its   *)
(* words; the HTTPError of raise_for_status reads "<status> Client Error:  *)
(* <reason> for url: <url>" with the reason phrase the server sent.        *)
(***************************************************************************)
retries == 10
RateLimitWait == 30
RateLimitText == <<"Too", "many", "requests">>

\* `text in message`, on words
Contains(message, text) ==
    \E k \in 0..(Len(message) - Len(text)) :
      \A i \in 1..Len(text) : message[k + i] = text[i]

HttpError(status, class, reason) ==
    <<status, class, "Error:">> \o reason \o <<"for", "url:">>

\* what a request can raise: 429 with the reason phrase in either casing,
\* a server error, a connection error
ErrorMessages ==
    {HttpError("429", "Client", <<"Too", "many", "requests">>),
     HttpError("429", "Client", <<"Too", "Many", "Requests">>),
     HttpError("500", "Server", <<"Internal", "Server", "Error">>),
     <<"Connection", "refused">>}

Endpoints == {"income-statement quarter", "balance-sheet-statement quarter",
              "income-statement annual", "balance-sheet-statement annual"}
Payloads == {<<>>, <<"statement">>}

RequestInit ==
    /\ endpoint \in Endpoints
    /\ attempt = 0
    /\ waited = 0
    /\ request_errors = <<>>
    /\ mr = "loop"
    /\ returned = [kind |-> "none", payload |-> <<>>]
    /\ PortfolioIdle
    /\ TrendIdle
    /\ IndicatorsIdle
    /\ YearlyIdle
    /\ RankingIdle
    /\ MainIdle
    /\ ConfigIdle

\* lines 17-20: the request succeeds and its JSON is returned
AttemptSucceeds ==
    /\ mr = "loop"
    /\ attempt < retries
    /\ attempt' = attempt + 1
    /\ \E payload \in Payloads :
         returned' = [kind |-> "json", payload |-> payload]
    /\ mr' = "returned"
    /\ UNCHANGED <<endpoint, waited, request_errors>>
    /\ UNCHANGED <<pvars, tvars, ivars, yvars, rvars, mvars, cvars>>

\* lines 21-27: the request raises; the matching text makes the loop sleep
\* and go on, and return [] after the last pass, anything else is re-raised
AttemptFails ==
    /\ mr = "loop"
    /\ attempt < retries
    /\ attempt' = attempt + 1
    /\ \E message \in ErrorMessages :
         /\ request_errors' = Append(request_errors, message)
         /\ IF Contains(message, RateLimitText)
            THEN /\ waited' = waited + RateLimitWait
                 /\ IF attempt' < retries
                    THEN UNCHANGED <<mr, returned>>
                    ELSE /\ mr' = "returned"
                         /\ returned' = [kind |-> "json", payload |-> <<>>]
            ELSE /\ mr' = "raised"
                 /\ UNCHANGED <<waited, returned>>
    /\ UNCHANGED endpoint
    /\ UNCHANGED <<pvars, tvars, ivars, yvars, rvars, mvars, cvars>>

\* lines 111-113: get_yearly_metrics catches what _make_request raised
YearlyCatches ==
    /\ mr = "raised"
    /\ metrics' = [kind |-> "dict", entries |-> {}]
    /\ mr' = "skipped"
    /\ UNCHANGED <<endpoint, attempt, waited, request_errors, returned>>
    /\ UNCHANGED <<pvars, tvars, ivars, statements, rvars, mvars, cvars>>

RequestNext ==
    \/ AttemptSucceeds
    \/ AttemptFails
    \/ YearlyCatches

SpecRequest == RequestInit /\ [][RequestNext]_vars

\* the attempt was rate-limited: the server answered 429
RateLimited(message) == message[1] = "429"
RateLimitedCount ==
    Cardinality({k \in 1..Len(request_errors) : RateLimited(request_errors[k])})

\* C23: a _make_request call makes at most 10 requests; it sleeps 30
\* seconds after each rate-limited attempt and tries again; it returns the
\* first successful response, or the empty result after 10 rate-limited
\* attempts in a row; an error that is not a rate limit is raised at once,
\* and only such an error makes get_yearly_metrics skip the symbol with an
\* empty record.
C23_BoundedRetry ==
    /\ attempt <= retries
    /\ waited = RateLimitWait * RateLimitedCount
    /\ mr = "loop" =>
         /\ attempt = Len(request_errors)
         /\ \A k \in 1..Len(request_errors) : RateLimited(request_errors[k])
    /\ mr = "returned" =>
         /\ \A k \in 1..Len(request_errors) : RateLimited(request_errors[k])
         /\ \/ attempt = Len(request_errors) + 1
            \/ /\ Len(request_errors) = retries
               /\ attempt = retries
               /\ returned.payload = <<>>
    /\ mr \in {"raised", "skipped"} =>
         /\ attempt = Len(request_errors)
         /\ ~RateLimited(request_errors[Len(request_errors)])
         /\ \A k \in 1..(Len(request_errors) - 1) : RateLimited(request_errors[k])
    /\ mr = "skipped" => metrics = [kind |-> "dict", entries |-> {}]

(***************************************************************************)
(* The zero-sum correction of analyze_portfolio_positions (checked under   *)
(* SpecPortfolio)                                                          *)
(***************************************************************************)
\* the rows as the rounding formulas produced them, before the correction
Uncorrected == MergedRows(Optimizable, results, total_value)
UncorrectedRow(sym) ==
    Uncorrected[CHOOSE k \in 1..Len(Uncorrected) : Uncorrected[k].Symbol = sym]
Corrected(k) == plan[k] # UncorrectedRow(plan[k].Symbol)

\* C25 as stated: the correction changes the row that stands last in the
\* returned plan, which is sorted by cash_change descending, and every
\* other row is as the rounding formulas produced it.
C25_CorrectsLastOfSortedPlan ==
    Returned =>
      /\ \A k \in 1..(Len(plan) - 1) : ~Corrected(k)
      /\ \A k \in 1..(Len(plan) - 1) :
           SortsBefore(plan[k], plan[k + 1])
             \/ plan[k].cash_change = plan[k + 1].cash_change

\* C25 amended: the correction rewrites only the row of the last holding in
\* the order of the holdings file; every other row is as the rounding
\* formulas produced it, and the rewritten cash_change is minus the sum of
\* the others when it is defined.
C25_CorrectsLastHolding ==
    Returned =>
      /\ \A k \in 1..Len(plan) :
           plan[k].Symbol # last_symbol => ~Corrected(k)
      /\ last_symbol = Optimizable[Len(Optimizable)].Symbol
      /\ ~PlanRow(last_symbol).cash_change.nan =>
           PlanRow(last_symbol).cash_change.v =
             0 - SumSkipNa([k \in 1..Len(plan) |->
                              IF plan[k].Symbol = last_symbol THEN NaN
                              ELSE plan[k].cash_change])

\* the corrected row is not the last row of the sorted plan
C25_Witness ==
    /\ Returned
    /\ Len(plan) >= 2
    /\ \E k \in 1..(Len(plan) - 1) :
         /\ plan[k].Symbol = last_symbol
         /\ Corrected(k)
         /\ SortsBefore(plan[k], plan[Len(plan)])

(***************************************************************************)
(* main(): the daily run (main.py)                                         *)
(*                                                                         *)
(* stock_scores is the table read from the scores file: its column names   *)
(* and, per row, the value of its key column and its final_rank.  The      *)
(* screens are what the finviz screener answers for the four filter sets   *)
(* of the run.  trend_verdict holds the TrendSignals the Trend Detector    *)
(* gave during the run.                                                    *)
(***************************************************************************)
\* datetime.today().weekday(): Monday is 0 and Sunday is 6
Monday == 0
Saturday == 5
Weekdays == Monday..(Saturday + 1)

\* main.py, line 114
is_monday(day) == day = Monday

\* utils/general.py, line 31
general_is_monday(day) == day = Saturday

\* the named columns of a table of the ranking engine
ColumnNames(rows) ==
    IF rows = <<>> THEN {} ELSE DOMAIN rows[1] \ {"index", "values"}

\* the table of analyze_stocks as main reads it back from the scores file
ScoresOf(rows) ==
    [columns |-> ColumnNames(rows),
     rows |-> [k \in 1..Len(rows) |->
                 [key |-> rows[k].symbol, final_rank |-> rows[k].final_rank]]]

ResponseOf(symbols) ==
    [k \in 1..Len(symbols) |->
       [symbol |-> symbols[k], sector |-> Sector[symbols[k]]]]

EngineTables ==
    { analyze_stocks(ResponseOf(r), Provider, DottedSymbols,
                     [kind |-> "None", dict |-> DefaultWeights], "sorted")
        : r \in {<<"A", "B", "D">>, <<"B", "C">>} }

\* the columns get_value_stocks and get_non_value_stocks select
SelectorColumns ==
    {"ticker", "2023", "roce_rank", "coef_rank", "std_rank", "final_rank"}

\* a scores file that carries the columns the selector selects
TickerScores ==
    [columns |-> SelectorColumns,
     rows |-> <<[key |-> "A", final_rank |-> Num(1)],
                [key |-> "B", final_rank |-> Num(2)],
                [key |-> "C", final_rank |-> Num(3)]>>]

ScoreFiles == {ScoresOf(t) : t \in EngineTables} \cup {TickerScores}

\* config.stock_filters: the rank conditions of the two lists
StockFilters ==
    [long |-> [rank_condition |-> 2], short |-> [rank_condition |-> 2]]

\* what a screener query answers: the tickers that pass its filters
ScreenAnswers == {{}, {"A", "B"}, {"A", "B", "C", "D"}}

EmptyDataFrame(error) ==
    [kind |-> "frame", columns |-> {}, rows |-> <<>>, error |-> error]

\* get_value_stocks / get_non_value_stocks: the rows whose ticker passes the
\* fundamental screen, under the six selected columns
get_scores(scores, tickers) ==
    IF ~(SelectorColumns \subseteq scores.columns)
    THEN EmptyDataFrame("KeyError")
    ELSE [kind |-> "frame", columns |-> SelectorColumns,
          rows |-> SelectSeq(scores.rows, LAMBDA r : r.key \in tickers),
          error |-> "none"]

\* main.py process_positions, lines 14-57: any exception gives an empty
\* DataFrame
process_positions(scores, fundamental, trending, filters, position_type, io) ==
    LET selected == get_scores(scores, fundamental)
        final_stocks ==
            SortByFinalRank(SelectSeq(selected.rows,
                                      LAMBDA r : r.key \in trending))
        filtered_stocks ==
            SelectSeq(final_stocks,
                      LAMBDA r :
                        IF position_type = "long"
                        THEN Le(r.final_rank, Num(filters.rank_condition))
                        ELSE Ge(r.final_rank, Num(filters.rank_condition)))
    IN  IF selected.error # "none" THEN selected
        ELSE IF io # "ok" THEN EmptyDataFrame(io)
        ELSE [kind |-> "frame",
              columns |-> SelectorColumns \cup {"price_picked", "date"},
              rows |-> filtered_stocks, error |-> "none"]

\* format_dataframe: display_columns
DisplayColumns == {"symbol", "final_rank"}

\* EmailFormatter.format_stock_analysis: a list with rows is formatted
\* through df[['symbol', 'final_rank']]
format_stock_analysis(long_list, short_list) ==
    IF \E l \in {long_list, short_list} :
          l.rows # <<>> /\ ~(DisplayColumns \subseteq l.columns)
    THEN "KeyError" ELSE "body"

MainInit ==
    /\ weekday \in Weekdays
    /\ stock_scores = [columns |-> {}, rows |-> <<>>]
    /\ screens \in [kind : {"screens"}, value : ScreenAnswers,
                    non_value : ScreenAnswers, long : ScreenAnswers,
                    short : ScreenAnswers]
    /\ trend_verdict = [kind |-> "signals", given |-> {}]
    /\ investing_stocks = [kind |-> "none"]
    /\ short_stocks = [kind |-> "none"]
    /\ emails = <<>>
    /\ main_pc = "start"
    /\ PortfolioIdle
    /\ TrendIdle
    /\ IndicatorsIdle
    /\ YearlyIdle
    /\ RankingIdle
    /\ RequestIdle
    /\ ConfigIdle

\* lines 124-134: Config(), EmailHandler and read_csv succeed
ReadStockScores ==
    /\ main_pc = "start"
    /\ stock_scores' \in ScoreFiles
    /\ main_pc' = "long"
    /\ UNCHANGED <<weekday, screens, trend_verdict, investing_stocks,
                   short_stocks, emails>>
    /\ UNCHANGED <<pvars, tvars, ivars, yvars, rvars, qvars, cvars>>

\* lines 124-134: Config(), EmailHandler or read_csv raises; main logs and
\* re-raises
MainRaises ==
    /\ main_pc = "start"
    /\ main_pc' = "raised"
    /\ UNCHANGED <<weekday, stock_scores, screens, trend_verdict,
                   investing_stocks, short_stocks, emails>>
    /\ UNCHANGED <<pvars, tvars, ivars, yvars, rvars, qvars, cvars>>

\* lines 136-141; get_price or save_to_csv may raise inside the try
ProcessLong ==
    /\ main_pc = "long"
    /\ \E io \in {"ok", "Exception"} :
         investing_stocks' =
            process_positions(stock_scores, screens.value, screens.long,
                              StockFilters.long, "long", io)
    /\ main_pc' = "short"
    /\ UNCHANGED <<weekday, stock_scores, screens, trend_verdict,
                   short_stocks, emails>>
    /\ UNCHANGED <<pvars, tvars, ivars, yvars, rvars, qvars, cvars>>

\* lines 143-148
ProcessShort ==
    /\ main_pc = "short"
    /\ \E io \in {"ok", "Exception"} :
         short_stocks' =
            process_positions(stock_scores, screens.non_value, screens.short,
                              StockFilters.short, "short", io)
    /\ main_pc' = "market"
    /\ UNCHANGED <<weekday, stock_scores, screens, trend_verdict,
                   investing_stocks, emails>>
    /\ UNCHANGED <<pvars, tvars, ivars, yvars, rvars, qvars, cvars>>

\* lines 150-160: the formatter builds the body and send_email hands it to
\* the SMTP server; send_email prints and swallows a failure of the server
SendStockAnalysisEmail ==
    /\ main_pc = "market"
    /\ format_stock_analysis(investing_stocks, short_stocks) = "body"
    /\ \E delivered \in BOOLEAN :
         emails' = Append(emails, [subject |-> "Stock Analysis",
                                   delivered |-> delivered])
    /\ main_pc' = "monday"
    /\ UNCHANGED <<weekday, stock_scores, screens, trend_verdict,
                   investing_stocks, short_stocks>>
    /\ UNCHANGED <<pvars, tvars, ivars, yvars, rvars, qvars, cvars>>

\* lines 75-77 and 175-177: the formatter raises, send_stock_analysis_email
\* and main re-raise
StockAnalysisEmailRaises ==
    /\ main_pc = "market"
    /\ format_stock_analysis(investing_stocks, short_stocks) = "KeyError"
    /\ main_pc' = "email_raised"
    /\ UNCHANGED <<weekday, stock_scores, screens, trend_verdict,
                   investing_stocks, short_stocks, emails>>
    /\ UNCHANGED <<pvars, tvars, ivars, yvars, rvars, qvars, cvars>>

\* lines 163-169: the Monday schedule
SendPortfolioAnalysisEmail ==
    /\ main_pc = "monday"
    /\ is_monday(weekday)
    /\ \E delivered \in BOOLEAN :
         emails' = Append(emails, [subject |-> "Portfolio Rebalance",
                                   delivered |-> delivered])
    /\ main_pc' = "done"
    /\ UNCHANGED <<weekday, stock_scores, screens, trend_verdict,
                   investing_stocks, short_stocks>>
    /\ UNCHANGED <<pvars, tvars, ivars, yvars, rvars, qvars, cvars>>

\* lines 170-171
SkipPortfolioAnalysis ==
    /\ main_pc = "monday"
    /\ ~is_monday(weekday)
    /\ main_pc' = "done"
    /\ UNCHANGED <<weekday, stock_scores, screens, trend_verdict,
                   investing_stocks, short_stocks, emails>>
    /\ UNCHANGED <<pvars, tvars, ivars, yvars, rvars, qvars, cvars>>

MainNext ==
    \/ ReadStockScores
    \/ MainRaises
    \/ ProcessLong
    \/ ProcessShort
    \/ SendStockAnalysisEmail
    \/ StockAnalysisEmailRaises
    \/ SendPortfolioAnalysisEmail
    \/ SkipPortfolioAnalysis

SpecMain == MainInit /\ [][MainNext]_vars

(***************************************************************************)
(* Properties of the daily run (checked under SpecMain)                    *)
(***************************************************************************)
\* both position lists of the run have been produced
ListsProduced == investing_stocks.kind = "frame" /\ short_stocks.kind = "frame"

\* the scores file holds a table that analyze_stocks produced
FromEngine == stock_scores \in {ScoresOf(t) : t \in EngineTables}

\* C24: every column the Position Selector and the stock-analysis email
\* formatter read is a column of the table the ranking engine emits, keyed
\* by symbol, so the table and the position lists made from it are consumed
\* without a missing-column failure.
C24_ColumnsOfEngineTableSuffice ==
    (FromEngine /\ ListsProduced) =>
        /\ "symbol" \in stock_scores.columns
        /\ SelectorColumns \subseteq stock_scores.columns
        /\ DisplayColumns \subseteq stock_scores.columns
        /\ investing_stocks.error # "KeyError"
        /\ short_stocks.error # "KeyError"
        /\ main_pc # "email_raised"

\* the Trend Detector gave the symbol a TrendSignal of the direction
GivenSignal(sym, trend_type) ==
    [symbol |-> sym, trend_type |-> trend_type] \in trend_verdict.given

\* C26: every symbol of the long list has final_rank <= the long rank
\* condition, passed the screener and was given an up-trend TrendSignal;
\* every symbol of the short list has final_rank >= the short rank
\* condition, passed the screener and was given a down-trend TrendSignal.
C26_ListsAreRankScreenAndTrend ==
    ListsProduced =>
        /\ \A k \in 1..Len(investing_stocks.rows) :
             LET r == investing_stocks.rows[k]
             IN  /\ Le(r.final_rank, Num(StockFilters.long.rank_condition))
                 /\ r.key \in screens.long
                 /\ GivenSignal(r.key, "up")
        /\ \A k \in 1..Len(short_stocks.rows) :
             LET r == short_stocks.rows[k]
             IN  /\ Ge(r.final_rank, Num(StockFilters.short.rank_condition))
                 /\ r.key \in screens.short
                 /\ GivenSignal(r.key, "down")

\* the run ran the portfolio rebalance analysis
PortfolioAnalysisRan ==
    \E k \in 1..Len(emails) : emails[k].subject = "Portfolio Rebalance"

\* C30: both definitions of is_monday are true exactly on Mondays, and a
\* run that ends has run the portfolio analysis exactly when the day is a
\* Monday, after the stock-analysis email was sent.
C30_MondayOnly ==
    main_pc # "idle" =>
        /\ is_monday(weekday) <=> (weekday = Monday)
        /\ general_is_monday(weekday) <=> (weekday = Monday)
        /\ main_pc = "done" =>
             /\ PortfolioAnalysisRan <=> (weekday = Monday)
             /\ PortfolioAnalysisRan => emails[1].subject = "Stock Analysis"

(***************************************************************************)
(* Config: the configuration singleton (utils/config_loader.py)            *)
(*                                                                         *)
(* config_file is the state of config.yaml on disk, instance is the class  *)
(* attribute Config._instance, and config_calls is the outcome of every    *)
(* construction since the class was loaded.                                *)
(***************************************************************************)
MaxCalls == 3

required_sections == {"email", "stock_filters", "api", "paths", "portfolio"}

FileStates ==
    {"missing", "invalid_yaml", "missing_section", "missing_field", "valid"}

\* yaml.safe_load(file)
LoadedConfig(file) ==
    IF file \in {"missing", "invalid_yaml"} THEN [kind |-> "None"]
    ELSE [kind |-> "dict",
          sections |-> IF file = "missing_section"
                       THEN required_sections \ {"portfolio"}
                       ELSE required_sections]

\* _initialize: _load_config, _validate_config, _setup_paths, each of which
\* may raise and leave the later ones undone
initialize(file) ==
    [_config |-> LoadedConfig(file),
     validated |-> file = "valid",
     paths_set |-> file = "valid",
     raised |-> CASE file = "missing" -> "FileNotFoundError"
                  [] file = "valid" -> "none"
                  [] OTHER -> "ConfigValidationError"]

\* __new__: the instance is stored in cls._instance before _initialize runs
New(inst, file) ==
    IF inst.kind = "None"
    THEN [kind |-> "Config", _config |-> initialize(file)._config,
          validated |-> initialize(file).validated,
          paths_set |-> initialize(file).paths_set]
    ELSE inst

\* the outcome of one Config() call, made directly or by reload()
Call(inst, file, by) ==
    IF inst.kind = "None"
    THEN [call |-> by, initialized |-> TRUE,
          outcome |-> IF initialize(file).raised = "none" THEN "returned"
                      ELSE initialize(file).raised,
          object |-> IF initialize(file).raised = "none" THEN New(inst, file)
                     ELSE [kind |-> "None"]]
    ELSE [call |-> by, initialized |-> FALSE, outcome |-> "returned",
          object |-> inst]

\* __getattr__: name in self._config
getattr(object, name) ==
    IF object._config.kind = "None" THEN "TypeError"
    ELSE IF name \in object._config.sections THEN "value"
    ELSE "AttributeError"

ConfigInit ==
    /\ config_file \in FileStates
    /\ instance = [kind |-> "None"]
    /\ config_calls = <<>>
    /\ PortfolioIdle
    /\ TrendIdle
    /\ IndicatorsIdle
    /\ YearlyIdle
    /\ RankingIdle
    /\ RequestIdle
    /\ MainIdle

\* Config()
Construct ==
    /\ Len(config_calls) < MaxCalls
    /\ config_calls' =
         Append(config_calls, Call(instance, config_file, "Config"))
    /\ instance' = New(instance, config_file)
    /\ UNCHANGED config_file
    /\ UNCHANGED <<pvars, tvars, ivars, yvars, rvars, qvars, mvars>>

\* Config.reload(): the instance is dropped and Config() called
Reload ==
    /\ Len(config_calls) < MaxCalls
    /\ config_calls' =
         Append(config_calls, Call([kind |-> "None"], config_file, "reload"))
    /\ instance' = New([kind |-> "None"], config_file)
    /\ UNCHANGED config_file
    /\ UNCHANGED <<pvars, tvars, ivars, yvars, rvars, qvars, mvars>>

\* config.yaml is edited between two calls
EditConfigFile ==
    /\ config_file' \in FileStates \ {config_file}
    /\ UNCHANGED <<instance, config_calls>>
    /\ UNCHANGED <<pvars, tvars, ivars, yvars, rvars, qvars, mvars>>

ConfigNext ==
    \/ Construct
    \/ Reload
    \/ EditConfigFile

SpecConfig == ConfigInit /\ [][ConfigNext]_vars

(***************************************************************************)
(* Properties of the configuration singleton (checked under SpecConfig)    *)
(***************************************************************************)
\* no reload() was called after call j up to call k
SameSingleton(j, k) ==
    \A i \in (j + 1)..k : config_calls[i].call # "reload"

\* C29: every object Config() returns has completed loading, validation
\* and path setup, calls return the same instance unless reload() came
\* between them, and the call after a construction attempt that raised
\* runs initialization again.
C29_ReturnedConfigIsInitialized ==
    \A k \in 1..Len(config_calls) :
        /\ config_calls[k].outcome = "returned" =>
             /\ config_calls[k].object.kind = "Config"
             /\ config_calls[k].object._config.kind = "dict"
             /\ config_calls[k].object.validated
             /\ config_calls[k].object.paths_set
             /\ \A name \in required_sections :
                  getattr(config_calls[k].object, name) = "value"
             /\ \A j \in 1..(k - 1) :
                  (config_calls[j].outcome = "returned" /\ SameSingleton(j, k))
                     => config_calls[j].object = config_calls[k].object
        /\ (k > 1 /\ config_calls[k - 1].outcome # "returned") =>
              config_calls[k].initialized

====
